---- MODULE Spec2Model ----
(***************************************************************************)
(* RFQM job processing (src/src/services/rfqm_service.ts): worker           *)
(* processes take a Job from the Job Store, obtain the maker's signature,   *)
(* submit an EIP-1559 transaction and watch it to confirmation.             *)
(*                                                                          *)
(* One step of a worker is everything the code does between two accesses    *)
(* to shared state (the Job Store, the chain): the value a storage call     *)
(* writes is fixed when the call is issued, and other workers run between   *)
(* a read and the write that follows it.                                    *)
(***************************************************************************)
EXTENDS Integers, Sequences, FiniteSets, TLC

\* ------------------------------------------------------------------ bounds
\* TransactionSubmission rows written for the Job in a run
MaxSubmissions == 2
\* highest block number the chain reaches in a run
MaxBlock == 4
\* the order's expiry, in seconds on the model's clock
JobExpiry == 300
\* transactions each worker address has already mined when the run starts
InitialTransactionCount == 0
\* the most messages the queue takes for the order hash
MaxQueued == 3
\* RFQM_MINIMUM_EXPIRY_DURATION_MS, in seconds
RFQM_MINIMUM_EXPIRY_DURATION_S == 60
\* the most fee escalations looked at apart from the rest
MaxCycles == 4
\* the most reads of one token's decimals from the chain
MaxQueries == 3
\* the most quotes the makers return for a request
MaxQuotes == 2
\* the order's maker amount and taker amount
MakerAmount == 2
TakerAmount == 3

\* --------------------------------------------------------- program constants
BLOCK_FINALITY_THRESHOLD == 3
ONE_MINUTE_S == 60
\* the least time between two heartbeats, in seconds
WORKER_HEARTBEAT_FREQUENCY_S == 30
\* retry(..., { maxAttempts: 3 }) of the maker signature request
SignMaxAttempts == 3
\* retry(..., { maxAttempts: 3 }) of the eth_call validation
EthCallMaxAttempts == 3
\* _initialMaxPriorityFeePerGasGwei ("we start with 2 gwei")
InitialMaxPriorityFeePerGasGwei == 2

\* Fee amounts are exact decimals in the code (BigNumber).  They are kept
\* here as integers in units of 10^-n Gwei, n the most multiplications by 1.5
\* and 1.1 a run makes, so that the products stay exact.
Gwei == 10 ^ (IF MaxCycles > MaxSubmissions THEN MaxCycles ELSE MaxSubmissions)
MAX_PRIORITY_FEE_PER_GAS_CAP == 128 * Gwei

Workers == {"w1", "w2"}
\* "fast" gas price estimates the fee service may return, in gwei
GasPriceEstimatesGwei == {10, 100}

\* the clock's instants: before the expiry, at it, just after it, at the end
\* of the two minute grace window and just after that
Instants ==
    {0, JobExpiry, JobExpiry + 1, JobExpiry + 2 * ONE_MINUTE_S, JobExpiry + 2 * ONE_MINUTE_S + 1}

\* ------------------------------------------------------------- signatures
\* A maker signature is known by the address ecrecover yields for it once it
\* has full-width components, and by whether r or s came back a byte short.
MakerAddress == "maker"
\* an address the maker registered as its order signer (smart contract wallet)
DelegateAddress == "delegate"
StrangerAddress == "stranger"
NoSignature == [signer |-> "null", short |-> FALSE]
Signatures == [signer : {MakerAddress, DelegateAddress, StrangerAddress}, short : BOOLEAN]

padSignature(sig) == [sig EXCEPT !.short = FALSE]

\* recovery over truncated components yields an address unrelated to the key
getSignerFromHash(sig) == IF sig.short THEN "unrecoverable" ELSE sig.signer

isValidOrderSigner(makerAddress, signerAddress) ==
    makerAddress = MakerAddress /\ signerAddress = DelegateAddress

\* the calldata is a function of the order and the two signatures; the order
\* and the taker signature are fixed per Job
generateTakerSignedOtcOrderCallData(makerSignature) == makerSignature.signer

\* ------------------------------------------------------------------ statuses
PendingStatuses ==
    {"PendingEnqueued", "PendingProcessing", "PendingLastLookAccepted", "PendingSubmitted"}
FailedStatuses ==
    {"FailedEthCallFailed", "FailedExpired", "FailedLastLookDeclined",
     "FailedPresignValidationFailed", "FailedRevertedConfirmed", "FailedRevertedUnconfirmed",
     "FailedSignFailed", "FailedSubmitFailed", "FailedValidationNoCallData",
     "FailedValidationNoFee", "FailedValidationNoMakerUri", "FailedValidationNoOrder",
     "FailedValidationNoTakerSignature"}
SucceededStatuses == {"SucceededConfirmed", "SucceededUnconfirmed"}
RfqmJobStatus == PendingStatuses \cup FailedStatuses \cup SucceededStatuses

\* validateJob with the expiry compared by "less than"
validateJobStrictExpiry(job, nowS) ==
    IF ~job.hasMakerUri THEN "FailedValidationNoMakerUri"
    ELSE IF ~job.hasOrder THEN "FailedValidationNoOrder"
    ELSE IF ~job.hasFee THEN "FailedValidationNoFee"
    ELSE IF job.expiry < nowS THEN "FailedExpired"
    ELSE IF ~job.hasTakerSignature THEN "FailedValidationNoTakerSignature"
    ELSE "null"

\* validateJob without its expiry test
validateJobNoExpiry(job, nowS) ==
    IF ~job.hasMakerUri THEN "FailedValidationNoMakerUri"
    ELSE IF ~job.hasOrder THEN "FailedValidationNoOrder"
    ELSE IF ~job.hasFee THEN "FailedValidationNoFee"
    ELSE IF ~job.hasTakerSignature THEN "FailedValidationNoTakerSignature"
    ELSE "null"

\* validateJob with the taker signature tested before the fee
validateJobSignatureBeforeFee(job, nowS) ==
    IF ~job.hasMakerUri THEN "FailedValidationNoMakerUri"
    ELSE IF ~job.hasOrder THEN "FailedValidationNoOrder"
    ELSE IF ~job.hasTakerSignature THEN "FailedValidationNoTakerSignature"
    ELSE IF ~job.hasFee THEN "FailedValidationNoFee"
    ELSE IF job.expiry <= nowS THEN "FailedExpired"
    ELSE "null"

\* Returns a failure status for invalid jobs and "null" if the job is valid.
validateJob(job, nowS) ==
    IF ~job.hasMakerUri THEN "FailedValidationNoMakerUri"
    ELSE IF ~job.hasOrder THEN "FailedValidationNoOrder"
    ELSE IF ~job.hasFee THEN "FailedValidationNoFee"
    ELSE IF job.expiry <= nowS THEN "FailedExpired"
    ELSE IF ~job.hasTakerSignature THEN "FailedValidationNoTakerSignature"
    ELSE "null"

\* ---------------------------------------------------------------- fee rules
\* x * MAX_PRIORITY_FEE_PER_GAS_MULTIPLIER (1.5)
TimesPriorityFeeMultiplier(x) == (x * 15) \div 10
\* x * MAX_FEE_PER_GAS_MULTIPLIER (1.1)
TimesFeeMultiplier(x) == (x * 11) \div 10
Max(a, b) == IF a >= b THEN a ELSE b

NoFees == [maxFeePerGas |-> 0, maxPriorityFeePerGas |-> 0]

\* first fees whose fee cap is the estimate plus the priority fee
InitialGasFeesEstimateOnce(estimateGwei) ==
    [maxFeePerGas |-> estimateGwei * Gwei + InitialMaxPriorityFeePerGasGwei * Gwei,
     maxPriorityFeePerGas |-> InitialMaxPriorityFeePerGasGwei * Gwei]

\* the fees of a first submission, from the configured initial priority fee
\* and the gas price estimate (both in gwei)
InitialGasFeesFor(initialGwei, estimateGwei) ==
    [maxFeePerGas |-> 2 * estimateGwei * Gwei + initialGwei * Gwei,
     maxPriorityFeePerGas |-> initialGwei * Gwei]

\* the fees of a first submission, from the gas price estimate (in gwei)
InitialGasFees(estimateGwei) ==
    InitialGasFeesFor(InitialMaxPriorityFeePerGasGwei, estimateGwei)

NewMaxPriorityFeePerGas(old) == TimesPriorityFeeMultiplier(old.maxPriorityFeePerGas)

\* the new fee cap without the 1.1 floor: the base-fee term alone
NewMaxFeePerGasFromEstimateOnly(old, estimateGwei) ==
    2 * estimateGwei * Gwei + NewMaxPriorityFeePerGas(old)

\* the new fee cap from the 1.1 increase alone
NewMaxFeePerGasTenthMore(old, estimateGwei) == TimesFeeMultiplier(old.maxFeePerGas)

NewMaxFeePerGas(old, estimateGwei) ==
    Max(TimesFeeMultiplier(old.maxFeePerGas),
        2 * estimateGwei * Gwei + NewMaxPriorityFeePerGas(old))

\* the fees of a resubmission, from the context's fees and a new estimate
EscalatedGasFees(old, estimateGwei) ==
    [maxFeePerGas |-> NewMaxFeePerGas(old, estimateGwei),
     maxPriorityFeePerGas |-> NewMaxPriorityFeePerGas(old)]

\* the watch loop's test for "we've reached the max priority fee per gas"
ReachedFeeCap(old) == old.maxFeePerGas >= MAX_PRIORITY_FEE_PER_GAS_CAP

\* ------------------------------------------------------------------- state
VARIABLES
    dbJob,        \* the Job row of the order hash
    dbSubs,       \* the Job's TransactionSubmission rows, in insertion order
    broadcast,    \* transactions a node has accepted
    receipts,     \* receipts of mined transactions
    blockNumber,  \* the chain's current block
    now,          \* the clock, in seconds
    wk,           \* each worker process: position and locals of processJobAsync
    queue,        \* messages sent to the queue for the order hash
    api,          \* each submitTakerSignedOtcOrderAsync request: position and response
    before,       \* the workerBeforeLogicAsync call of the worker: position and locals
    lastHeartbeatTime,  \* the service instance's _lastHeartbeatTime
    heartbeat,    \* the worker's heartbeat row
    rfq,          \* the quote request being served: fetched quotes, choice, outcome
    tokenDecimalsCache,  \* the service instance's _tokenDecimalsCache
    onchainDecimals,     \* each token contract's decimals
    onchainQueries,      \* how often each token's decimals were read from the chain
    decimalsCall,        \* the last getTokenDecimalsAsync call and what it gave
    trades,       \* the Job row of each of one taker's orders for one taker token
    submitting,   \* the submitTakerSignedOtcOrderAsync request of each such order
    escalation    \* a Job's gas fees over its submissions, apart from the rest

\* what the entry points other than processJobAsync read and write
quoteVars == <<rfq, tokenDecimalsCache, onchainDecimals, onchainQueries, decimalsCall>>

\* the requests for several orders of one taker
tradeVars == <<trades, submitting>>

feeVars == <<escalation>>

serviceVars == <<queue, api, before, lastHeartbeatTime, heartbeat, quoteVars, tradeVars, feeVars>>

vars == <<dbJob, dbSubs, broadcast, receipts, blockNumber, now, wk, serviceVars>>

NullJob ==
    [status |-> "null", workerAddress |-> "null", makerSignature |-> NoSignature,
     lastLookResult |-> "null", llRejectPriceDifferenceBps |-> "null",
     hasMakerUri |-> FALSE, hasOrder |-> FALSE, hasFee |-> FALSE,
     hasTakerSignature |-> FALSE, expiry |-> 0]

\* the row submitTakerSignedOtcOrderAsync inserts
NewJob ==
    [status |-> "PendingEnqueued", workerAddress |-> "null", makerSignature |-> NoSignature,
     lastLookResult |-> "null", llRejectPriceDifferenceBps |-> "null",
     hasMakerUri |-> TRUE, hasOrder |-> TRUE, hasFee |-> TRUE,
     hasTakerSignature |-> TRUE, expiry |-> JobExpiry]

\* no balances were fetched
NoBalances == [maker |-> 0, taker |-> 0]

\* what the balance oracle may return: a unit short of the amount, or the amount
MakerBalances == {MakerAmount - 1, MakerAmount}
TakerBalances == {TakerAmount - 1, TakerAmount}

IdleWorker ==
    [pc |-> "idle", job |-> NullJob, calldata |-> "null", attempt |-> 0, ctx |-> <<>>,
     gasFees |-> NoFees, nonce |-> 0, first |-> FALSE, subId |-> 0,
     gasEstimate |-> "null", jobStatus |-> "null", finalStatus |-> "null",
     validated |-> "null", counted |-> "null", balances |-> NoBalances,
     minedBefore |-> FALSE]

\* the ones who submit the signed order
Takers == {"t1", "t2", "t3"}

\* no request is being served
IdleSubmission == [pc |-> "idle", response |-> "null"]

\* no workerBeforeLogicAsync call is running
IdleBefore ==
    [pc |-> "idle", gasPrice |-> "null", found |-> 0, processed |-> 0, returned |-> "null"]

\* no time was recorded
NoTime == [recorded |-> FALSE, time |-> 0]

\* the token contracts whose decimals are asked for, and what they may be
Tokens == {"tokenA", "tokenB"}
DecimalsValues == {0, 6}

\* no decimals are cached
NotCached == [cached |-> FALSE, decimals |-> 0]

\* no getTokenDecimalsAsync call was made
NoDecimalsCall == [token |-> "null", outcome |-> "null", decimals |-> 0, queried |-> FALSE]

\* no quote
NoQuote == [makerAmount |-> 0, takerAmount |-> 0, expiry |-> 0, hasMakerUri |-> FALSE]

\* no quote request was served
NoRfq ==
    [quotes |-> <<>>, isSelling |-> TRUE, firm |-> FALSE, outcome |-> "none",
     bestQuote |-> NoQuote, stored |-> NoQuote]

\* one taker's orders for one taker token
OrderHashes == {"h1", "h2"}

\* no quote request was served and no decimals were asked for
QuotesIdle ==
    /\ rfq = NoRfq
    /\ tokenDecimalsCache = [t \in Tokens |-> NotCached]
    /\ onchainDecimals = [t \in Tokens |-> 0]
    /\ onchainQueries = [t \in Tokens |-> 0]
    /\ decimalsCall = NoDecimalsCall

\* none of the taker's orders was submitted
TradesIdle ==
    /\ trades = [h \in OrderHashes |-> "null"]
    /\ submitting = [h \in OrderHashes |-> IdleSubmission]

\* no fees were computed
FeesIdle == escalation = [fees |-> NoFees, cycles |-> 0, watching |-> FALSE]

\* the service has just started and serves nothing
ServiceIdle ==
    /\ api = [t \in Takers |-> IdleSubmission]
    /\ before = IdleBefore
    /\ lastHeartbeatTime = NoTime
    /\ heartbeat = NoTime
    /\ QuotesIdle
    /\ TradesIdle
    /\ FeesIdle

\* the Job was stored and its message sent
Init ==
    /\ dbJob = NewJob
    /\ dbSubs = <<>>
    /\ broadcast = {}
    /\ receipts = {}
    /\ blockNumber = 0
    /\ now = 0
    /\ wk = [w \in Workers |-> IdleWorker]
    /\ queue = 1
    /\ ServiceIdle

\* ------------------------------------------------------------------ helpers
\* a worker's locals change
Local(w, rec) == wk' = [wk EXCEPT ![w] = rec]

\* An exception reaches processJobAsync's catch: the completed-with-error
\* counter is incremented and the call returns.  counted is the counter the
\* worker's last call incremented.
Throw(w) == wk' = [wk EXCEPT ![w] = [IdleWorker EXCEPT !.counted = "RFQM_JOB_COMPLETED_WITH_ERROR"]]

\* the try block runs to its end: the completed counter is incremented and
\* the call returns
Completes(w) == wk' = [wk EXCEPT ![w] = [IdleWorker EXCEPT !.counted = "RFQM_JOB_COMPLETED"]]

\* updateRfqmJobAsync: the whole row is overwritten by the caller's copy
UpdateRfqmJob(job) == dbJob' = job

\* where prepareV2JobAsync goes once the status is past PendingEnqueued
AfterProcessing(job) ==
    IF job.makerSignature # NoSignature THEN "prep_verify" ELSE "prep_balances"

\* One of the Job's recorded submissions has a mined receipt.  A call keeps
\* in minedBefore whether that was so when it started.
HasMinedSubmission ==
    \E i \in 1..Len(dbSubs) : \E r \in receipts :
        /\ r.tx.from = dbSubs[i].from /\ r.tx.nonce = dbSubs[i].nonce
        /\ r.tx.maxFeePerGas = dbSubs[i].maxFeePerGas
        /\ r.tx.maxPriorityFeePerGas = dbSubs[i].maxPriorityFeePerGas
        /\ r.tx.calldata = dbSubs[i].calldata

\* ---------------------------------------------------------- processJobAsync
\* Step 1 without the claim test: whoever holds the Job, the call goes on
ProcessJobFindAnyOwner(w) ==
    /\ wk[w].pc = "idle"
    /\ Local(w, [IdleWorker EXCEPT
           !.pc = "claim", !.job = [dbJob EXCEPT !.workerAddress = w],
           !.minedBefore = HasMinedSubmission])
    /\ UNCHANGED <<dbJob, dbSubs, broadcast, receipts, blockNumber, now, serviceVars>>

\* Step 1 and the claim test: the Job is read; a Job claimed by another
\* worker ends the call, otherwise the update carrying this worker's address
\* is issued.
ProcessJobFind(w) ==
    /\ wk[w].pc = "idle"
    /\ IF dbJob.workerAddress # "null" /\ dbJob.workerAddress # w
         THEN Throw(w)
         ELSE Local(w, [IdleWorker EXCEPT
                  !.pc = "claim", !.job = [dbJob EXCEPT !.workerAddress = w],
                  !.minedBefore = HasMinedSubmission])
    /\ UNCHANGED <<dbJob, dbSubs, broadcast, receipts, blockNumber, now, serviceVars>>

\* the claim reaches the Job Store
ProcessJobClaim(w) ==
    /\ wk[w].pc = "claim"
    /\ UpdateRfqmJob(wk[w].job)
    /\ Local(w, [wk[w] EXCEPT !.pc = "prep_find"])
    /\ UNCHANGED <<dbSubs, broadcast, receipts, blockNumber, now, serviceVars>>

\* -------------------------------------------------------- prepareV2JobAsync
\* prepareV2JobAsync starting without its validateJob test
PrepareEntryUnvalidated(job, submissions, nowS) ==
    IF Len(submissions) > 0
      THEN (IF job.makerSignature = NoSignature \/ ~job.hasTakerSignature
              THEN "throw" ELSE "prepared")
    ELSE IF job.status = "PendingEnqueued" THEN "process"
    ELSE "continue"

\* How prepareV2JobAsync starts on the Job it was handed, given the stored
\* submissions: with submissions the Job is already prepared and the calldata
\* is returned ("prepared"), unless a signature is missing ("throw"); without,
\* the Job is validated ("invalid") and leaves PendingEnqueued ("process").
PrepareEntry(job, submissions, nowS) ==
    IF Len(submissions) > 0
      THEN (IF job.makerSignature = NoSignature \/ ~job.hasTakerSignature
              THEN "throw" ELSE "prepared")
    ELSE IF validateJob(job, nowS) # "null" THEN "invalid"
    ELSE IF job.status = "PendingEnqueued" THEN "process"
    ELSE "continue"

\* The submissions are read and preparation starts.  validated records what
\* became of validateJob in this call: not run ("skipped"), or its verdict.
PrepareFindSubmissions(w) ==
    /\ wk[w].pc = "prep_find"
    /\ LET job == wk[w].job
           entry == PrepareEntry(job, dbSubs, now)
           verdict == IF validateJob(job, now) = "null" THEN "passed" ELSE "failed"
       IN  CASE entry = "throw" -> Throw(w)
             [] entry = "prepared" ->
                  Local(w, [wk[w] EXCEPT
                      !.pc = "submit_start", !.validated = "skipped",
                      !.calldata = generateTakerSignedOtcOrderCallData(job.makerSignature)])
             [] entry = "invalid" ->
                  Local(w, [wk[w] EXCEPT
                      !.pc = "prep_write_invalid", !.validated = verdict,
                      !.job = [job EXCEPT !.status = validateJob(job, now)]])
             [] entry = "process" ->
                  Local(w, [wk[w] EXCEPT
                      !.pc = "prep_write_processing", !.validated = verdict,
                      !.job = [job EXCEPT !.status = "PendingProcessing"]])
             [] entry = "continue" ->
                  Local(w, [wk[w] EXCEPT !.pc = AfterProcessing(job), !.validated = verdict])
    /\ UNCHANGED <<dbJob, dbSubs, broadcast, receipts, blockNumber, now, serviceVars>>

\* the validation failure is stored and preparation throws
PrepareWriteInvalid(w) ==
    /\ wk[w].pc = "prep_write_invalid"
    /\ UpdateRfqmJob(wk[w].job)
    /\ Throw(w)
    /\ UNCHANGED <<dbSubs, broadcast, receipts, blockNumber, now, serviceVars>>

PrepareWriteProcessing(w) ==
    /\ wk[w].pc = "prep_write_processing"
    /\ UpdateRfqmJob(wk[w].job)
    /\ Local(w, [wk[w] EXCEPT !.pc = AfterProcessing(wk[w].job)])
    /\ UNCHANGED <<dbSubs, broadcast, receipts, blockNumber, now, serviceVars>>

\* an order that fails only when both balances are short
FailsPresignValidationBoth(makerBalance, takerBalance) ==
    makerBalance < MakerAmount /\ takerBalance < TakerAmount

\* the order cannot be filled from the balances the oracle returned
FailsPresignValidation(makerBalance, takerBalance) ==
    makerBalance < MakerAmount \/ takerBalance < TakerAmount

\* The pre-sign balance check: the balance oracle returns the maker's balance
\* of the maker token and the taker's of the taker token.  balances keeps
\* what was returned until the next step.
PrepareBalances(w) ==
    /\ wk[w].pc = "prep_balances"
    /\ \E makerBalance \in MakerBalances, takerBalance \in TakerBalances :
         LET fetched == [maker |-> makerBalance, taker |-> takerBalance]
         IN  IF FailsPresignValidation(makerBalance, takerBalance)
               THEN Local(w, [wk[w] EXCEPT
                        !.pc = "prep_write_presign", !.balances = fetched,
                        !.job = [wk[w].job EXCEPT !.status = "FailedPresignValidationFailed"]])
               ELSE Local(w, [wk[w] EXCEPT !.pc = "prep_sign", !.attempt = 1,
                                           !.balances = fetched])
    /\ UNCHANGED <<dbJob, dbSubs, broadcast, receipts, blockNumber, now, serviceVars>>

PrepareWritePresignFailed(w) ==
    /\ wk[w].pc = "prep_write_presign"
    /\ UpdateRfqmJob(wk[w].job)
    /\ Throw(w)
    /\ UNCHANGED <<dbSubs, broadcast, receipts, blockNumber, now, serviceVars>>

\* a signature request that is made once more than the retry allows
PrepareSignOneMoreAttempt(w) ==
    /\ wk[w].pc = "prep_sign"
    /\ LET job == wk[w].job
       IN  \/ IF wk[w].attempt <= SignMaxAttempts
                THEN Local(w, [wk[w] EXCEPT !.attempt = @ + 1, !.balances = NoBalances])
                ELSE Local(w, [wk[w] EXCEPT
                         !.pc = "prep_write_signfailed", !.attempt = 0, !.balances = NoBalances,
                         !.job = [job EXCEPT !.status = "FailedSignFailed"]])
           \/ Local(w, [wk[w] EXCEPT
                  !.pc = "prep_write_declined", !.attempt = 0, !.balances = NoBalances,
                  !.job = [job EXCEPT !.lastLookResult = "false",
                                      !.status = "FailedLastLookDeclined"]])
           \/ \E sig \in Signatures :
                Local(w, [wk[w] EXCEPT
                    !.pc = "prep_write_accepted", !.attempt = 0, !.balances = NoBalances,
                    !.job = [job EXCEPT !.makerSignature = padSignature(sig),
                                        !.lastLookResult = "true",
                                        !.status = "PendingLastLookAccepted"]])
    /\ UNCHANGED <<dbJob, dbSubs, broadcast, receipts, blockNumber, now, serviceVars>>

\* One attempt of the signature request.  The maker's server fails, declines
\* (no signature) or returns a signature.
PrepareSign(w) ==
    /\ wk[w].pc = "prep_sign"
    /\ LET job == wk[w].job
       IN  \/ \* the request throws
              IF wk[w].attempt < SignMaxAttempts
                THEN Local(w, [wk[w] EXCEPT !.attempt = @ + 1, !.balances = NoBalances])
                ELSE Local(w, [wk[w] EXCEPT
                         !.pc = "prep_write_signfailed", !.attempt = 0, !.balances = NoBalances,
                         !.job = [job EXCEPT !.status = "FailedSignFailed"]])
           \/ \* the maker declines
              Local(w, [wk[w] EXCEPT
                  !.pc = "prep_write_declined", !.attempt = 0, !.balances = NoBalances,
                  !.job = [job EXCEPT !.lastLookResult = "false",
                                      !.status = "FailedLastLookDeclined"]])
           \/ \* the maker signs
              \E sig \in Signatures :
                Local(w, [wk[w] EXCEPT
                    !.pc = "prep_write_accepted", !.attempt = 0, !.balances = NoBalances,
                    !.job = [job EXCEPT !.makerSignature = padSignature(sig),
                                        !.lastLookResult = "true",
                                        !.status = "PendingLastLookAccepted"]])
    /\ UNCHANGED <<dbJob, dbSubs, broadcast, receipts, blockNumber, now, serviceVars>>

PrepareWriteSignFailed(w) ==
    /\ wk[w].pc = "prep_write_signfailed"
    /\ UpdateRfqmJob(wk[w].job)
    /\ Throw(w)
    /\ UNCHANGED <<dbSubs, broadcast, receipts, blockNumber, now, serviceVars>>

\* a decline that goes to the price check without being stored
PrepareWriteDeclinedUnsaved(w) ==
    /\ wk[w].pc = "prep_write_declined"
    /\ Local(w, [wk[w] EXCEPT !.pc = "prep_price_check"])
    /\ UNCHANGED <<dbJob, dbSubs, broadcast, receipts, blockNumber, now, serviceVars>>

\* the decline is stored before the price check
PrepareWriteDeclined(w) ==
    /\ wk[w].pc = "prep_write_declined"
    /\ UpdateRfqmJob(wk[w].job)
    /\ Local(w, [wk[w] EXCEPT !.pc = "prep_price_check"])
    /\ UNCHANGED <<dbSubs, broadcast, receipts, blockNumber, now, serviceVars>>

\* The decline-to-sign price check.  Without a price the check is abandoned;
\* with one the bps difference is put on the Job and the Job is saved.
PreparePriceCheck(w) ==
    /\ wk[w].pc = "prep_price_check"
    /\ \E priced \in BOOLEAN :
         IF priced
           THEN Local(w, [wk[w] EXCEPT
                    !.pc = "prep_write_bps",
                    !.job = [wk[w].job EXCEPT !.llRejectPriceDifferenceBps = "set"]])
           ELSE Throw(w)
    /\ UNCHANGED <<dbJob, dbSubs, broadcast, receipts, blockNumber, now, serviceVars>>

\* the save of the metric succeeds or fails; either way preparation throws
PrepareWriteBps(w) ==
    /\ wk[w].pc = "prep_write_bps"
    /\ \/ UpdateRfqmJob(wk[w].job)
       \/ UNCHANGED dbJob
    /\ Throw(w)
    /\ UNCHANGED <<dbSubs, broadcast, receipts, blockNumber, now, serviceVars>>

\* the padded signature and PendingLastLookAccepted are stored
PrepareWriteAccepted(w) ==
    /\ wk[w].pc = "prep_write_accepted"
    /\ UpdateRfqmJob(wk[w].job)
    /\ Local(w, [wk[w] EXCEPT !.pc = "prep_verify"])
    /\ UNCHANGED <<dbSubs, broadcast, receipts, blockNumber, now, serviceVars>>

\* "Verify the signer was the maker", with the registry consulted otherwise
PrepareVerifySigner(w) ==
    /\ wk[w].pc = "prep_verify"
    /\ LET job == wk[w].job
           signerAddress == getSignerFromHash(job.makerSignature)
       IN  IF signerAddress # MakerAddress /\ ~isValidOrderSigner(MakerAddress, signerAddress)
             THEN Local(w, [wk[w] EXCEPT
                      !.pc = "prep_write_badsigner",
                      !.job = [job EXCEPT !.status = "FailedSignFailed"]])
             ELSE Local(w, [wk[w] EXCEPT
                      !.pc = "prep_eth_call", !.attempt = 1,
                      !.calldata = generateTakerSignedOtcOrderCallData(job.makerSignature)])
    /\ UNCHANGED <<dbJob, dbSubs, broadcast, receipts, blockNumber, now, serviceVars>>

PrepareWriteBadSigner(w) ==
    /\ wk[w].pc = "prep_write_badsigner"
    /\ UpdateRfqmJob(wk[w].job)
    /\ Throw(w)
    /\ UNCHANGED <<dbSubs, broadcast, receipts, blockNumber, now, serviceVars>>

\* an eth_call validation that is made once more than the retry allows
PrepareEthCallOneMoreAttempt(w) ==
    /\ wk[w].pc = "prep_eth_call"
    /\ \E passes \in BOOLEAN :
         IF passes
           THEN Local(w, [wk[w] EXCEPT !.pc = "submit_start", !.attempt = 0])
         ELSE IF wk[w].attempt <= EthCallMaxAttempts
           THEN Local(w, [wk[w] EXCEPT !.attempt = @ + 1])
         ELSE Local(w, [wk[w] EXCEPT
                  !.pc = "prep_write_ethcall", !.attempt = 0,
                  !.job = [wk[w].job EXCEPT !.status = "FailedEthCallFailed"]])
    /\ UNCHANGED <<dbJob, dbSubs, broadcast, receipts, blockNumber, now, serviceVars>>

\* one attempt of the eth_call validation
PrepareEthCall(w) ==
    /\ wk[w].pc = "prep_eth_call"
    /\ \E passes \in BOOLEAN :
         IF passes
           THEN Local(w, [wk[w] EXCEPT !.pc = "submit_start", !.attempt = 0])
         ELSE IF wk[w].attempt < EthCallMaxAttempts
           THEN Local(w, [wk[w] EXCEPT !.attempt = @ + 1])
         ELSE Local(w, [wk[w] EXCEPT
                  !.pc = "prep_write_ethcall", !.attempt = 0,
                  !.job = [wk[w].job EXCEPT !.status = "FailedEthCallFailed"]])
    /\ UNCHANGED <<dbJob, dbSubs, broadcast, receipts, blockNumber, now, serviceVars>>

\* the failure is stored before the extra context is gathered
PrepareWriteEthCallFailed(w) ==
    /\ wk[w].pc = "prep_write_ethcall"
    /\ UpdateRfqmJob(wk[w].job)
    /\ Local(w, [wk[w] EXCEPT !.pc = "prep_extra_context"])
    /\ UNCHANGED <<dbSubs, broadcast, receipts, blockNumber, now, serviceVars>>

\* The balances and the block number are fetched for the log; whether that
\* succeeds or throws, preparation throws.
PrepareExtraContext(w) ==
    /\ wk[w].pc = "prep_extra_context"
    /\ \E gathered \in BOOLEAN : Throw(w)
    /\ UNCHANGED <<dbJob, dbSubs, broadcast, receipts, blockNumber, now, serviceVars>>

\* ------------------------------------------------------------------ the chain
\* the transaction a submission row stands for; its hash is a function of it
Transaction(sub) ==
    [from |-> sub.from, nonce |-> sub.nonce, maxFeePerGas |-> sub.maxFeePerGas,
     maxPriorityFeePerGas |-> sub.maxPriorityFeePerGas, calldata |-> sub.calldata]

\* getNonceAsync: the sender's count of mined transactions
getNonce(workerAddress) ==
    InitialTransactionCount + Cardinality({r \in receipts : r.tx.from = workerAddress})

\* the settlement call fills the order once, and only with a signature of
\* the maker or of a signer the maker registered
OrderFilled == \E r \in receipts : r.ok
CallSucceeds(tx) == ~OrderFilled /\ tx.calldata \in {MakerAddress, DelegateAddress}

\* ----------------------------------------------------------- SubmissionContext
ContextNonce(ctx) == ctx[1].nonce

\* the most recent fee parameters
MaxGasFees(ctx) ==
    [maxFeePerGas |-> ctx[Len(ctx)].maxFeePerGas,
     maxPriorityFeePerGas |-> ctx[Len(ctx)].maxPriorityFeePerGas]

\* the receipts the chain has for the context's transactions
ContextReceipts(ctx) ==
    {r \in receipts : \E i \in 1..Len(ctx) : Transaction(ctx[i]) = r.tx}

\* the context's submissions that have a receipt: at most one of a Job's
\* submissions is expected to have one
MinedSubmissions(ctx) ==
    {i \in 1..Len(ctx) : \E r \in receipts : r.tx = Transaction(ctx[i])}

\* The status of a submission whose receipt was retrieved: recorded as
\* Unconfirmed first, and promoted to Confirmed only when the finality
\* threshold of blocks is on top of the receipt's block.
ReceiptStatus(r, recorded) ==
    IF recorded \in {"Presubmit", "Submitted"}
      THEN (IF r.ok THEN "SucceededUnconfirmed" ELSE "FailedRevertedUnconfirmed")
    ELSE IF /\ recorded \in {"SucceededUnconfirmed", "FailedRevertedUnconfirmed"}
            /\ blockNumber - r.blockNumber >= BLOCK_FINALITY_THRESHOLD
      THEN (IF r.ok THEN "SucceededConfirmed" ELSE "FailedRevertedConfirmed")
    ELSE recorded

\* updateForReceiptAsync: the mined submission takes the receipt's status
UpdateForReceipt(ctx, r) ==
    [i \in 1..Len(ctx) |->
        IF Transaction(ctx[i]) = r.tx
          THEN [ctx[i] EXCEPT !.status = ReceiptStatus(r, ctx[i].status)]
          ELSE ctx[i]]

ContextJobStatus(ctx) ==
    LET has(st) == \E i \in 1..Len(ctx) : ctx[i].status = st
    IN  IF has("SucceededConfirmed") THEN "SucceededConfirmed"
        ELSE IF has("FailedRevertedConfirmed") THEN "FailedRevertedConfirmed"
        ELSE IF has("SucceededUnconfirmed") THEN "SucceededUnconfirmed"
        ELSE IF has("FailedRevertedUnconfirmed") THEN "FailedRevertedUnconfirmed"
        ELSE "PendingSubmitted"

\* ------------------------------------------------------ submitJobToChainAsync
\* a selection that leaves nothing out
SelectEntitiesAll(seq, keep) == seq

\* the order-preserving selection of a sequence's elements
RECURSIVE SelectEntities(_, _)
SelectEntities(seq, keep) ==
    IF seq = <<>> THEN <<>>
    ELSE IF Head(seq).id \in keep THEN <<Head(seq)>> \o SelectEntities(Tail(seq), keep)
    ELSE SelectEntities(Tail(seq), keep)

PresubmitRows == {i \in 1..Len(dbSubs) : dbSubs[i].status = "Presubmit"}

\* The stored submissions are read and the Presubmit ones resolved: a
\* transaction the node returns is promoted to Submitted (and stored), one it
\* does not return is left out of the working set.  getTransaction may return
\* null for a transaction that was sent.  Then the gas price is estimated, and
\* either the first submission is prepared or the context is recovered.  A
\* first submission is prepared only while fewer than MaxSubmissions rows are
\* stored.
SubmitStart(w) ==
    /\ wk[w].pc = "submit_start"
    /\ \E found \in SUBSET {i \in PresubmitRows : Transaction(dbSubs[i]) \in broadcast} :
         LET promoted == [i \in 1..Len(dbSubs) |->
                             IF i \in found THEN [dbSubs[i] EXCEPT !.status = "Submitted"]
                             ELSE dbSubs[i]]
             kept == {i \in 1..Len(dbSubs) : i \notin PresubmitRows \/ i \in found}
             previousSubmissions ==
                 SelectEntities([i \in 1..Len(dbSubs) |-> [promoted[i] EXCEPT !.id = i]], kept)
             job == wk[w].job
         IN  /\ dbSubs' = promoted
             /\ IF previousSubmissions = <<>>
                  THEN IF job.expiry < now
                         THEN Local(w, [wk[w] EXCEPT
                                  !.pc = "submit_write_expired",
                                  !.job = [job EXCEPT !.status = "FailedExpired"]])
                         ELSE \E estimate \in GasPriceEstimatesGwei :
                                /\ Len(dbSubs) < MaxSubmissions
                                /\ Local(w, [wk[w] EXCEPT
                                    !.pc = "submit_write_submitted",
                                    !.gasFees = InitialGasFees(estimate),
                                    !.job = [job EXCEPT !.status = "PendingSubmitted"]])
                  ELSE Local(w, [wk[w] EXCEPT
                           !.pc = "watch",
                           !.ctx = previousSubmissions,
                           !.nonce = ContextNonce(previousSubmissions),
                           !.gasEstimate = "MAX_GAS_ESTIMATE"])
    /\ UNCHANGED <<dbJob, broadcast, receipts, blockNumber, now, serviceVars>>

SubmitWriteExpired(w) ==
    /\ wk[w].pc = "submit_write_expired"
    /\ UpdateRfqmJob(wk[w].job)
    /\ Local(w, [wk[w] EXCEPT !.pc = "final", !.finalStatus = "FailedExpired"])
    /\ UNCHANGED <<dbSubs, broadcast, receipts, blockNumber, now, serviceVars>>

\* PendingSubmitted is stored, then the sender's nonce is fetched and the gas
\* of the call estimated: the estimate is a simulation of the call, and throws
\* once the order has been filled
SubmitWriteSubmitted(w) ==
    /\ wk[w].pc = "submit_write_submitted"
    /\ UpdateRfqmJob(wk[w].job)
    /\ IF OrderFilled
         THEN Throw(w)
         ELSE Local(w, [wk[w] EXCEPT !.pc = "tx_presubmit", !.first = TRUE,
                                     !.nonce = getNonce(w), !.gasEstimate = "estimated"])
    /\ UNCHANGED <<dbSubs, broadcast, receipts, blockNumber, now, serviceVars>>

\* ---------------------------------------------------- _submitTransactionAsync
\* a row written as Submitted at once
NewSubmissionSubmitted(w) ==
    [id |-> 0, from |-> w, nonce |-> wk[w].nonce,
     maxFeePerGas |-> wk[w].gasFees.maxFeePerGas,
     maxPriorityFeePerGas |-> wk[w].gasFees.maxPriorityFeePerGas,
     calldata |-> wk[w].calldata, status |-> "Submitted"]

\* the row of the signed transaction
NewSubmission(w) ==
    [id |-> 0, from |-> w, nonce |-> wk[w].nonce,
     maxFeePerGas |-> wk[w].gasFees.maxFeePerGas,
     maxPriorityFeePerGas |-> wk[w].gasFees.maxPriorityFeePerGas,
     calldata |-> wk[w].calldata, status |-> "Presubmit"]

\* the transaction is signed and its row written in Presubmit
TxWritePresubmit(w) ==
    /\ wk[w].pc = "tx_presubmit"
    /\ Len(dbSubs) < MaxSubmissions
    /\ dbSubs' = Append(dbSubs, NewSubmission(w))
    /\ Local(w, [wk[w] EXCEPT !.pc = "tx_broadcast", !.subId = Len(dbSubs) + 1])
    /\ UNCHANGED <<dbJob, broadcast, receipts, blockNumber, now, serviceVars>>

\* every exception of a submission ends the call
SubmitThrowsAlways(w, nonceTooLow) == Throw(w)

\* what an exception of a submission does: the first submission's ends the
\* call; a resubmission's "nonce too low" returns to the watch loop, any
\* other ends the call
SubmitThrows(w, nonceTooLow) ==
    IF ~wk[w].first /\ nonceTooLow
      THEN Local(w, [wk[w] EXCEPT !.pc = "watch", !.subId = 0, !.gasFees = NoFees])
      ELSE Throw(w)

\* The signed transaction is sent.  A node refuses a nonce below the sender's
\* count ("nonce too low"), accepts the transaction, or the send fails.
TxBroadcast(w) ==
    /\ wk[w].pc = "tx_broadcast"
    /\ LET tx == Transaction(NewSubmission(w))
       IN  IF tx.nonce < getNonce(w)
             THEN /\ SubmitThrows(w, TRUE)
                  /\ UNCHANGED broadcast
             ELSE \/ /\ broadcast' = broadcast \cup {tx}
                     /\ Local(w, [wk[w] EXCEPT !.pc = "tx_mark"])
                  \/ /\ SubmitThrows(w, FALSE)
                     /\ UNCHANGED broadcast
    /\ UNCHANGED <<dbJob, dbSubs, receipts, blockNumber, now, serviceVars>>

\* the row is marked Submitted, read back and added to the context
TxMarkSubmitted(w) ==
    /\ wk[w].pc = "tx_mark"
    /\ LET id == wk[w].subId
           updated == [dbSubs[id] EXCEPT !.status = "Submitted"]
       IN  /\ dbSubs' = [dbSubs EXCEPT ![id] = updated]
           /\ Local(w, [wk[w] EXCEPT
                  !.pc = "watch", !.subId = 0, !.gasFees = NoFees,
                  !.ctx = (IF wk[w].first THEN <<>> ELSE @) \o <<[updated EXCEPT !.id = id]>>])
    /\ UNCHANGED <<dbJob, broadcast, receipts, blockNumber, now, serviceVars>>

\* -------------------------------------------------------------- the watch loop
\* a poll that gives up one minute past the expiry
PollOutcomeOneMinuteGrace(w) ==
    LET rs == ContextReceipts(wk[w].ctx)
        secondsPastExpiration == now - wk[w].job.expiry
    IN  IF Cardinality(MinedSubmissions(wk[w].ctx)) > 1 THEN "manyReceipts"
        ELSE IF rs # {} THEN "receipt"
        ELSE IF secondsPastExpiration > ONE_MINUTE_S THEN "giveUp"
        ELSE IF secondsPastExpiration > 0 THEN "keepWatching"
        ELSE IF ReachedFeeCap(MaxGasFees(wk[w].ctx)) THEN "atFeeCap"
        ELSE "escalate"

\* a poll that looks at the expiry before it looks at the receipts
PollOutcomeExpiryFirst(w) ==
    LET rs == ContextReceipts(wk[w].ctx)
        secondsPastExpiration == now - wk[w].job.expiry
    IN  IF secondsPastExpiration > ONE_MINUTE_S * 2 THEN "giveUp"
        ELSE IF Cardinality(MinedSubmissions(wk[w].ctx)) > 1 THEN "manyReceipts"
        ELSE IF rs # {} THEN "receipt"
        ELSE IF secondsPastExpiration > 0 THEN "keepWatching"
        ELSE IF ReachedFeeCap(MaxGasFees(wk[w].ctx)) THEN "atFeeCap"
        ELSE "escalate"

\* a poll that never gives up on a Job without a receipt
PollOutcomeKeepsWatching(w) ==
    LET rs == ContextReceipts(wk[w].ctx)
        secondsPastExpiration == now - wk[w].job.expiry
    IN  IF Cardinality(MinedSubmissions(wk[w].ctx)) > 1 THEN "manyReceipts"
        ELSE IF rs # {} THEN "receipt"
        ELSE IF secondsPastExpiration > 0 THEN "keepWatching"
        ELSE IF ReachedFeeCap(MaxGasFees(wk[w].ctx)) THEN "atFeeCap"
        ELSE "escalate"

\* What a poll of the watch loop comes to.  Without a receipt: past the grace
\* window the loop gives up, within it it keeps watching, before the expiry it
\* escalates the fees and resubmits unless the cap test says stop.
PollOutcome(w) ==
    LET rs == ContextReceipts(wk[w].ctx)
        secondsPastExpiration == now - wk[w].job.expiry
    IN  IF Cardinality(MinedSubmissions(wk[w].ctx)) > 1 THEN "manyReceipts"
        ELSE IF rs # {} THEN "receipt"
        ELSE IF secondsPastExpiration > ONE_MINUTE_S * 2 THEN "giveUp"
        ELSE IF secondsPastExpiration > 0 THEN "keepWatching"
        ELSE IF ReachedFeeCap(MaxGasFees(wk[w].ctx)) THEN "atFeeCap"
        ELSE "escalate"

\* One poll.  With a receipt the context is updated and the stores are about
\* to be written.  No more than MaxSubmissions submissions are followed: a
\* poll that would make one more waits for the clock or the chain to move.
WatchPoll(w) ==
    /\ wk[w].pc = "watch"
    /\ PollOutcome(w) = "escalate" => Len(dbSubs) < MaxSubmissions
    /\ LET ctx == wk[w].ctx
           outcome == PollOutcome(w)
       IN  CASE outcome = "manyReceipts" -> Throw(w)
             [] outcome = "receipt" ->
                  \E r \in ContextReceipts(ctx) :
                     LET updated == UpdateForReceipt(ctx, r)
                     IN  Local(w, [wk[w] EXCEPT
                             !.pc = "watch_write", !.ctx = updated,
                             !.jobStatus = ContextJobStatus(updated)])
             [] outcome = "giveUp" ->
                  Local(w, [wk[w] EXCEPT !.pc = "final", !.finalStatus = "FailedExpired"])
             [] outcome \in {"keepWatching", "atFeeCap"} -> UNCHANGED wk
             [] outcome = "escalate" ->
                  \E estimate \in GasPriceEstimatesGwei :
                     Local(w, [wk[w] EXCEPT
                         !.pc = "tx_presubmit", !.first = FALSE,
                         !.gasFees = EscalatedGasFees(MaxGasFees(ctx), estimate)])
    /\ UNCHANGED <<dbJob, dbSubs, broadcast, receipts, blockNumber, now, serviceVars>>

\* the stored submissions after the context's are written over them
StoredContext(ctx) ==
    LET row(i) == CHOOSE k \in 1..Len(ctx) : ctx[k].id = i
    IN  [i \in 1..Len(dbSubs) |->
            IF \E k \in 1..Len(ctx) : ctx[k].id = i
              THEN [ctx[row(i)] EXCEPT !.id = 0]
              ELSE dbSubs[i]]

\* The context's submissions and the Job's status are stored by two updates
\* started together (Promise.all): either lands first.
WatchWriteReceipt(w) ==
    /\ wk[w].pc = "watch_write"
    /\ \/ /\ dbSubs' = StoredContext(wk[w].ctx)
          /\ Local(w, [wk[w] EXCEPT !.pc = "watch_write_job"])
          /\ UNCHANGED dbJob
       \/ /\ UpdateRfqmJob([wk[w].job EXCEPT !.status = wk[w].jobStatus])
          /\ Local(w, [wk[w] EXCEPT !.pc = "watch_write_submissions"])
          /\ UNCHANGED dbSubs
    /\ UNCHANGED <<broadcast, receipts, blockNumber, now, serviceVars>>

\* the other of the two updates lands, and _checkSubmissionMapReceiptsAndUpdateDbAsync
\* returns the Job's status to the loop
WatchWriteSecond(w) ==
    /\ wk[w].pc \in {"watch_write_job", "watch_write_submissions"}
    /\ LET jobStatus == wk[w].jobStatus
       IN  /\ IF wk[w].pc = "watch_write_job"
                THEN /\ UpdateRfqmJob([wk[w].job EXCEPT !.status = jobStatus])
                     /\ UNCHANGED dbSubs
                ELSE /\ dbSubs' = StoredContext(wk[w].ctx)
                     /\ UNCHANGED dbJob
           /\ IF jobStatus \in {"SucceededConfirmed", "FailedRevertedConfirmed"}
                THEN Local(w, [wk[w] EXCEPT !.pc = "final", !.finalStatus = jobStatus,
                                            !.jobStatus = "null"])
                ELSE Local(w, [wk[w] EXCEPT !.pc = "watch", !.jobStatus = "null"])
    /\ UNCHANGED <<broadcast, receipts, blockNumber, now, serviceVars>>

\* Step 4 with every final status counted as a completion
ProcessJobFinalNeverThrows(w) ==
    /\ wk[w].pc = "final"
    /\ UpdateRfqmJob([wk[w].job EXCEPT !.status = wk[w].finalStatus])
    /\ Completes(w)
    /\ UNCHANGED <<dbSubs, broadcast, receipts, blockNumber, now, serviceVars>>

\* Step 4: the final status is stored; FailedExpired then throws "Job
\* expired", any other status completes the call
ProcessJobFinal(w) ==
    /\ wk[w].pc = "final"
    /\ UpdateRfqmJob([wk[w].job EXCEPT !.status = wk[w].finalStatus])
    /\ IF wk[w].finalStatus = "FailedExpired" THEN Throw(w) ELSE Completes(w)
    /\ UNCHANGED <<dbSubs, broadcast, receipts, blockNumber, now, serviceVars>>

\* the worker process dies, or a storage or RPC call throws, in mid-call
Crash(w) ==
    /\ wk[w].pc # "idle"
    /\ Throw(w)
    /\ UNCHANGED <<dbJob, dbSubs, broadcast, receipts, blockNumber, now, serviceVars>>

\* ------------------------------------------------------------- the environment
Tick ==
    /\ \E t \in Instants : t > now /\ now' = t
    /\ UNCHANGED <<dbJob, dbSubs, broadcast, receipts, blockNumber, wk, serviceVars>>

\* a sent transaction whose nonce is the sender's next is mined in a new block
Mine ==
    /\ blockNumber < MaxBlock
    /\ \E tx \in broadcast :
         /\ tx.nonce = getNonce(tx.from)
         /\ \E ok \in {CallSucceeds(tx), FALSE} :
              receipts' = receipts \cup {[tx |-> tx, ok |-> ok, blockNumber |-> blockNumber + 1]}
    /\ blockNumber' = blockNumber + 1
    /\ UNCHANGED <<dbJob, dbSubs, broadcast, now, wk, serviceVars>>

\* Blocks are counted from the first mined transaction on: the code reads the
\* block number only against a receipt's.
NewBlock ==
    /\ receipts # {}
    /\ blockNumber < MaxBlock
    /\ blockNumber' = blockNumber + 1
    /\ UNCHANGED <<dbJob, dbSubs, broadcast, receipts, now, wk, serviceVars>>

\* a step of worker w in prepareV2JobAsync
PrepareStep(w) ==
    \/ PrepareFindSubmissions(w)
    \/ PrepareWriteProcessing(w)
    \/ PrepareBalances(w)
    \/ PrepareWritePresignFailed(w)
    \/ PrepareSign(w)
    \/ PrepareWriteSignFailed(w)
    \/ PrepareWriteDeclined(w)
    \/ PreparePriceCheck(w)
    \/ PrepareWriteBps(w)
    \/ PrepareWriteAccepted(w)
    \/ PrepareVerifySigner(w)
    \/ PrepareWriteBadSigner(w)
    \/ PrepareEthCall(w)
    \/ PrepareWriteEthCallFailed(w)
    \/ PrepareExtraContext(w)

\* a step of worker w up to its first submission
FirstSubmissionStep(w) ==
    \/ ProcessJobFind(w)
    \/ ProcessJobClaim(w)
    \/ PrepareStep(w)
    \/ SubmitStart(w)
    \/ SubmitWriteSubmitted(w)
    \/ TxWritePresubmit(w)
    \/ TxBroadcast(w)
    \/ TxMarkSubmitted(w)
    \/ Crash(w)

\* a step of worker w anywhere in processJobAsync
WorkerStep(w) ==
    \/ FirstSubmissionStep(w)
    \/ PrepareWriteInvalid(w)
    \/ SubmitWriteExpired(w)
    \/ WatchPoll(w)
    \/ WatchWriteReceipt(w)
    \/ WatchWriteSecond(w)
    \/ ProcessJobFinal(w)

\* One worker process takes the Job through any number of processJobAsync
\* calls (queue deliveries, redeliveries, readiness scans) while the clock
\* runs and the chain mines.
Processor == "w1"

Next ==
    \/ WorkerStep(Processor)
    \/ Tick
    \/ Mine
    \/ NewBlock

Spec == Init /\ [][Next]_vars

\* Two worker processes are handed the Job and race through claim,
\* preparation and first submission; the clock and the chain stand still.
NextRace == \E w \in Workers : FirstSubmissionStep(w)

SpecRace == Init /\ [][NextRace]_vars

\* ---------------------------------------------------------------- ownership
PastClaim(w) == wk[w].pc \notin {"idle", "claim"}

\* C1: of two processJobAsync calls made with different worker addresses on
\* the Job while its workerAddress is empty, at most one proceeds past the
\* claim step.
C1_AtMostOnePastClaim ==
    \A a, b \in Workers : (PastClaim(a) /\ PastClaim(b)) => a = b

\* ------------------------------------------------------------ terminal statuses
TerminalStatuses ==
    (FailedStatuses \ {"FailedRevertedUnconfirmed"}) \cup {"SucceededConfirmed"}

\* the step is an attempt of the maker signature request
SignRequestSent(w) == wk[w].pc = "prep_sign" /\ PrepareSign(w)

\* the step hands a signed transaction to a node
TransactionSent(w) == wk[w].pc = "tx_broadcast" /\ broadcast' # broadcast

\* C2: once the stored status is a Failed-* value or SucceededConfirmed, no
\* step changes the status, sends a maker signature request or broadcasts a
\* transaction.
C2_TerminalIsFinal ==
    [][dbJob.status \in TerminalStatuses =>
           /\ dbJob'.status = dbJob.status
           /\ ~SignRequestSent(Processor)
           /\ ~TransactionSent(Processor)]_vars

\* the place of a status in the order PendingEnqueued -> PendingProcessing ->
\* PendingLastLookAccepted -> PendingSubmitted -> Unconfirmed -> Confirmed,
\* with the other Failed-* values last
StatusRank(status) ==
    CASE status = "PendingEnqueued" -> 0
      [] status = "PendingProcessing" -> 1
      [] status = "PendingLastLookAccepted" -> 2
      [] status = "PendingSubmitted" -> 3
      [] status \in {"SucceededUnconfirmed", "FailedRevertedUnconfirmed"} -> 4
      [] status \in {"SucceededConfirmed", "FailedRevertedConfirmed"} -> 5
      [] OTHER -> 6

\* C3: every change of the stored status moves forward in the order of the
\* statuses or to a Failed-* value; no status is replaced by an earlier one.
C3_StatusMovesForward ==
    [][dbJob'.status # dbJob.status =>
           \/ StatusRank(dbJob'.status) > StatusRank(dbJob.status)
           \/ dbJob'.status \in FailedStatuses]_vars

\* --------------------------------------------------------------------- nonces
\* C4: all TransactionSubmission rows stored for the Job carry the same nonce.
C4_SameNonce ==
    \A i, j \in 1..Len(dbSubs) : dbSubs[i].nonce = dbSubs[j].nonce

\* ------------------------------------------------------------ fee escalation
\* worker w has decided a fee-bump resubmission and is making it
Resubmitting(w) ==
    wk[w].pc \in {"tx_presubmit", "tx_broadcast", "tx_mark"} /\ ~wk[w].first

\* C5: for every fee-bump resubmission of the watch loop, the new
\* maxPriorityFeePerGas is at least 1.5 times and the new maxFeePerGas at
\* least 1.1 times the fees the submission context held, and the row written
\* for it carries the new fees.
C5_FeeBumpMultipliers ==
    \A w \in Workers :
       Resubmitting(w) =>
          LET old == MaxGasFees(wk[w].ctx)
              new == wk[w].gasFees
          IN  /\ 10 * new.maxPriorityFeePerGas >= 15 * old.maxPriorityFeePerGas
              /\ 10 * new.maxFeePerGas >= 11 * old.maxFeePerGas
              /\ wk[w].pc # "tx_presubmit" =>
                    /\ dbSubs[wk[w].subId].maxFeePerGas = new.maxFeePerGas
                    /\ dbSubs[wk[w].subId].maxPriorityFeePerGas = new.maxPriorityFeePerGas

\* a fee-bump resubmission of a call that recovered its context from the
\* stored submissions has been accepted by a node
C5_RecoveredFeeBumpSent ==
    \E w \in Workers :
       /\ Resubmitting(w)
       /\ wk[w].pc = "tx_mark"
       /\ wk[w].gasEstimate = "MAX_GAS_ESTIMATE"
       /\ wk[w].gasFees.maxFeePerGas > MaxGasFees(wk[w].ctx).maxFeePerGas

\* worker w is at a poll with no mined receipt and the order not expired
UnexpiredUnminedPoll(w) ==
    /\ wk[w].pc = "watch"
    /\ ContextReceipts(wk[w].ctx) = {}
    /\ now <= wk[w].job.expiry

\* C6: a poll that finds the first submission unmined and the order unexpired
\* makes a second submission, with both fees strictly above the first's and
\* with the first's nonce.
C6_SecondSubmissionFollows ==
    \A w \in Workers :
       (UnexpiredUnminedPoll(w) /\ Len(wk[w].ctx) = 1) =>
          /\ PollOutcome(w) = "escalate"
          /\ wk[w].nonce = wk[w].ctx[1].nonce
          /\ \A estimate \in GasPriceEstimatesGwei :
                LET new == EscalatedGasFees(MaxGasFees(wk[w].ctx), estimate)
                IN  /\ new.maxFeePerGas > wk[w].ctx[1].maxFeePerGas
                    /\ new.maxPriorityFeePerGas > wk[w].ctx[1].maxPriorityFeePerGas

\* C7: at an unexpired poll with no mined receipt the loop resubmits exactly
\* when the most recent maxPriorityFeePerGas is below
\* MAX_PRIORITY_FEE_PER_GAS_CAP.
C7_ResubmitIffBelowPriorityCap ==
    \A w \in Workers :
       UnexpiredUnminedPoll(w) =>
          (PollOutcome(w) = "escalate" <=>
              MaxGasFees(wk[w].ctx).maxPriorityFeePerGas < MAX_PRIORITY_FEE_PER_GAS_CAP)

\* ------------------------------------------------------------ maker signature
\* the signer check of prepareV2JobAsync passes for the signature
SignerAccepted(sig) ==
    \/ getSignerFromHash(sig) = MakerAddress
    \/ isValidOrderSigner(MakerAddress, getSignerFromHash(sig))

\* C8: the Job is stored as PendingLastLookAccepted only with a maker
\* signature whose signer is the maker or a signer the maker registered.
C8_AcceptedOnlyIfSignerVerified ==
    dbJob.status = "PendingLastLookAccepted" => SignerAccepted(dbJob.makerSignature)

\* C9: prepareV2JobAsync, called on the Job when it has at least one
\* TransactionSubmission, returns the calldata of the Job's signatures
\* straight away: no signature request, no update of the Job.
C9_PreparedJobReturnsCalldata ==
    \A w \in Workers :
       (wk[w].pc = "prep_find" /\ Len(dbSubs) > 0) =>
          PrepareEntry(wk[w].job, dbSubs, now) = "prepared"

\* the step is the pre-sign balance check
BalanceCheckMade(w) == wk[w].pc = "prep_balances" /\ PrepareBalances(w)

\* C10: no balance check and no signature request is made while the Job has
\* a maker signature recorded, and a recorded maker signature is never
\* replaced.
C10_RecordedSignatureKept ==
    [][dbJob.makerSignature # NoSignature =>
           /\ dbJob'.makerSignature = dbJob.makerSignature
           /\ \A w \in Workers : ~SignRequestSent(w) /\ ~BalanceCheckMade(w)]_vars

\* ------------------------------------------------------------------ validation
\* C11: every transaction broadcast, and every signature request, is preceded
\* in the same processJobAsync call by a validateJob run that reported no
\* violation.
C11_ValidatedInCycle ==
    [][\A w \in Workers :
          (TransactionSent(w) \/ SignRequestSent(w)) => wk[w].validated = "passed"]_vars

\* C11 as amended: a signature request is preceded in the same call by a
\* validateJob run that reported no violation; a broadcast is preceded in the
\* same call by such a run or by prepareV2JobAsync finding stored submissions
\* of the Job, in which case validateJob is not run.
C11_ValidatedOrAlreadyPrepared ==
    [][\A w \in Workers :
          /\ SignRequestSent(w) => wk[w].validated = "passed"
          /\ TransactionSent(w) => wk[w].validated \in {"passed", "skipped"}
          /\ (TransactionSent(w) /\ wk[w].validated = "skipped") => Len(dbSubs) > 1]_vars

\* a call that skipped validateJob has had a transaction accepted by a node
C11_BroadcastWithoutValidation ==
    \E w \in Workers : wk[w].pc = "tx_mark" /\ wk[w].validated = "skipped"

\* -------------------------------------------------- validateJob over all Jobs
\* the Jobs validateJob may be handed: any of the fields it tests may be missing
JobsToValidate ==
    {[NewJob EXCEPT !.hasMakerUri = uri, !.hasOrder = order, !.hasFee = fee,
                    !.hasTakerSignature = sig] :
        uri \in BOOLEAN, order \in BOOLEAN, fee \in BOOLEAN, sig \in BOOLEAN}

InitValidate ==
    /\ dbJob \in JobsToValidate
    /\ now \in Instants
    /\ dbSubs = <<>>
    /\ broadcast = {}
    /\ receipts = {}
    /\ blockNumber = 0
    /\ wk = [w \in Workers |-> IdleWorker]
    /\ queue = 1
    /\ ServiceIdle

\* the Job is taken by processJobAsync and brought through validation
NextValidate ==
    \/ ProcessJobFind(Processor)
    \/ ProcessJobClaim(Processor)
    \/ PrepareFindSubmissions(Processor)
    \/ PrepareWriteInvalid(Processor)
    \/ PrepareWriteProcessing(Processor)

SpecValidate == InitValidate /\ [][NextValidate]_vars

C13_ExpiredIsRejected ==
    /\ dbJob.expiry <= now => validateJob(dbJob, now) # "null"
    /\ \A w \in Workers : wk[w].validated = "passed" => wk[w].job.expiry > now

\* a Job with every field present, validated at the second of its expiry, has
\* been refused
C13_RejectedAtExpiry ==
    /\ now = JobExpiry
    /\ wk[Processor].validated = "failed"
    /\ wk[Processor].job.status = "FailedExpired"
    /\ wk[Processor].job.hasTakerSignature

\* whether the Job violates the precondition the status reports
Violates(job, nowS, status) ==
    CASE status = "FailedValidationNoMakerUri" -> ~job.hasMakerUri
      [] status = "FailedValidationNoOrder" -> ~job.hasOrder
      [] status = "FailedValidationNoFee" -> ~job.hasFee
      [] status = "FailedValidationNoTakerSignature" -> ~job.hasTakerSignature
      [] status = "FailedExpired" -> job.expiry <= nowS
      [] OTHER -> FALSE

\* the preconditions a Job violates, by the status that reports each
Violations(job, nowS) == {status \in FailedStatuses : Violates(job, nowS, status)}

\* the first status of the order that is among the violations, or "null"
FirstInOrder(order, violations) ==
    IF \E i \in 1..Len(order) : order[i] \in violations
      THEN order[CHOOSE i \in 1..Len(order) :
                    /\ order[i] \in violations
                    /\ \A k \in 1..(i - 1) : order[k] \notin violations]
      ELSE "null"

PollWithoutReceipt(w) == wk[w].pc = "watch" /\ ContextReceipts(wk[w].ctx) = {}

\* C15: a poll that finds no receipt returns FailedExpired when now - expiry
\* is above 120 s; when it is above 0 and at most 120 s the poll neither
\* escalates nor resubmits and the loop polls again; it escalates and
\* resubmits only when now is at most the expiry.
C15_ExpiryWindows ==
    [][\A w \in Workers :
          PollWithoutReceipt(w) =>
             LET d == now - wk[w].job.expiry
             IN  /\ d > 2 * ONE_MINUTE_S =>
                       /\ PollOutcome(w) = "giveUp"
                       /\ WatchPoll(w) => /\ wk'[w].pc = "final"
                                          /\ wk'[w].finalStatus = "FailedExpired"
                 /\ (d > 0 /\ d <= 2 * ONE_MINUTE_S) =>
                       /\ PollOutcome(w) = "keepWatching"
                       /\ WatchPoll(w) => UNCHANGED vars
                 /\ (PollOutcome(w) = "escalate" \/ wk'[w].pc = "tx_presubmit") => d <= 0
                 /\ (d <= 0 /\ WatchPoll(w)) => wk'[w].pc \in {"watch", "tx_presubmit"}]_vars

\* the loop has given up on a Job that was submitted and was never mined
C15_GaveUpPastGrace ==
    \E w \in Workers :
        /\ wk[w].pc = "final"
        /\ wk[w].finalStatus = "FailedExpired"
        /\ Len(wk[w].ctx) > 0
        /\ now - wk[w].job.expiry > 2 * ONE_MINUTE_S

\* ------------------------------------------------- what the submission returns
UnconfirmedStatuses == {"SucceededUnconfirmed", "FailedRevertedUnconfirmed"}
ConfirmedStatuses == {"SucceededConfirmed", "FailedRevertedConfirmed"}

\* a stored submission carries the status of a mined receipt
ReceiptRecorded ==
    \E i \in 1..Len(dbSubs) : dbSubs[i].status \in UnconfirmedStatuses \cup ConfirmedStatuses

\* the positions of _checkSubmissionMapReceiptsAndUpdateDbAsync after a receipt
WritingReceipt == {"watch_write", "watch_write_job", "watch_write_submissions"}

\* the step is submitJobToChainAsync returning a status
SubmitReturns(w) == wk[w].pc # "final" /\ wk'[w].pc = "final"

\* C16: submitJobToChainAsync returns only FailedExpired,
\* FailedRevertedConfirmed or SucceededConfirmed; while the status derived
\* from the receipts is an Unconfirmed one the loop goes on polling, does not
\* return and does not resubmit; and FailedExpired is never returned for a
\* Job one of whose submissions is recorded as mined.
C16_ReturnsOnlyResolved ==
    [][\A w \in Workers :
          /\ SubmitReturns(w) =>
                wk'[w].finalStatus \in {"FailedExpired"} \cup ConfirmedStatuses
          /\ (wk[w].pc \in WritingReceipt /\ wk[w].jobStatus \in UnconfirmedStatuses) =>
                /\ wk'[w].pc \in WritingReceipt \cup {"watch", "idle"}
                /\ WatchWriteSecond(w) => wk'[w].pc = "watch"
          /\ (wk[w].pc = "watch" /\ ContextJobStatus(wk[w].ctx) \in UnconfirmedStatuses) =>
                /\ PollOutcome(w) \in {"receipt", "manyReceipts"}
                /\ wk'[w].pc \in {"watch", "watch_write", "idle"}
          /\ ReceiptRecorded =>
                /\ ~(SubmitReturns(w) /\ wk'[w].finalStatus = "FailedExpired")
                /\ ~(wk[w].pc = "final" /\ wk[w].finalStatus = "FailedExpired")]_vars

\* the loop polls a Job whose receipt is recorded and unconfirmed long after
\* the expiry
C16_UnconfirmedPastGrace ==
    \E w \in Workers :
        /\ wk[w].pc = "watch"
        /\ ReceiptRecorded
        /\ ContextJobStatus(wk[w].ctx) \in UnconfirmedStatuses
        /\ now - wk[w].job.expiry > 2 * ONE_MINUTE_S

\* --------------------------------------------------------------------- finality
\* the Unconfirmed status a Confirmed status is promoted from
UnconfirmedOf(status) ==
    IF status = "SucceededConfirmed" THEN "SucceededUnconfirmed"
    ELSE "FailedRevertedUnconfirmed"

\* a receipt of one of the Job's submissions has the finality threshold of
\* blocks on top of its block
ReceiptIsFinal ==
    \E r \in receipts :
        /\ \E i \in 1..Len(dbSubs) : Transaction(dbSubs[i]) = r.tx
        /\ blockNumber - r.blockNumber >= BLOCK_FINALITY_THRESHOLD

\* C17: the stored status becomes SucceededConfirmed (FailedRevertedConfirmed)
\* only from the stored status SucceededUnconfirmed
\* (FailedRevertedUnconfirmed), and only when at least
\* BLOCK_FINALITY_THRESHOLD blocks are on top of the receipt's block.
C17_ConfirmedAfterUnconfirmed ==
    [][(dbJob'.status \in ConfirmedStatuses /\ dbJob'.status # dbJob.status) =>
           /\ dbJob.status = UnconfirmedOf(dbJob'.status)
           /\ ReceiptIsFinal]_vars

\* ------------------------------------------------------------- the order status
\* the stored submissions that carry a Succeeded-* status
SuccessfulTransactions ==
    {i \in 1..Len(dbSubs) : dbSubs[i].status \in {"SucceededUnconfirmed", "SucceededConfirmed"}}

\* an order status that throws only on more than one successful submission
getOrderStatusUnlessNone(nowS) ==
    LET status == dbJob.status
    IN  IF status = "PendingEnqueued" /\ dbJob.expiry < nowS THEN "failed"
        ELSE IF status \in {"PendingEnqueued", "PendingProcessing", "PendingLastLookAccepted"}
          THEN "pending"
        ELSE IF status = "PendingSubmitted" THEN "submitted"
        ELSE IF status \in FailedStatuses THEN "failed"
        ELSE IF Cardinality(SuccessfulTransactions) > 1 THEN "throw"
        ELSE IF status = "SucceededUnconfirmed" THEN "succeeded"
        ELSE "confirmed"

\* getOrderStatusAsync on the stored Job at the instant nowS: the status of
\* the response, or "throw"
getOrderStatus(nowS) ==
    LET status == dbJob.status
    IN  IF status = "PendingEnqueued" /\ dbJob.expiry < nowS THEN "failed"
        ELSE IF status \in {"PendingEnqueued", "PendingProcessing", "PendingLastLookAccepted"}
          THEN "pending"
        ELSE IF status = "PendingSubmitted" THEN "submitted"
        ELSE IF status \in FailedStatuses THEN "failed"
        ELSE IF Cardinality(SuccessfulTransactions) # 1 THEN "throw"
        ELSE IF status = "SucceededUnconfirmed" THEN "succeeded"
        ELSE "confirmed"

\* C18: at most one of the Job's stored submissions has a Succeeded-* status;
\* and getOrderStatusAsync, for a Job stored as SucceededUnconfirmed or
\* SucceededConfirmed, throws whenever the number of submissions with a
\* Succeeded-* status is not 1.
C18_OneSuccessfulSubmission ==
    /\ Cardinality(SuccessfulTransactions) <= 1
    /\ \A t \in Instants :
          dbJob.status \in SucceededStatuses =>
             IF Cardinality(SuccessfulTransactions) # 1
               THEN getOrderStatus(t) = "throw"
               ELSE getOrderStatus(t) = (IF dbJob.status = "SucceededUnconfirmed"
                                           THEN "succeeded" ELSE "confirmed")

\* the Job is stored as succeeded and none of its submissions is yet
C18_SucceededJobWithoutSubmission ==
    /\ dbJob.status \in SucceededStatuses
    /\ Len(dbSubs) > 0
    /\ SuccessfulTransactions = {}
    /\ getOrderStatus(now) = "throw"

\* --------------------------------------------------------- Presubmit recovery
\* the working set holds the stored submission i as it is stored after the step
InWorkingSet(w, i) ==
    \E k \in 1..Len(wk'[w].ctx) :
        /\ wk'[w].ctx[k].id = i
        /\ [wk'[w].ctx[k] EXCEPT !.id = 0] = dbSubs'[i]

\* the step is _recoverPresubmitTransactionsAsync returning a working set that
\* is not empty
RecoveryReturns(w) == SubmitStart(w) /\ wk'[w].pc = "watch"

\* C19: _recoverPresubmitTransactionsAsync promotes a Presubmit submission
\* the network returns by its hash to Submitted, stores that, and returns it;
\* a Presubmit submission that is not found is left out of the returned
\* working set while its stored row stays, unchanged; every submission that
\* is not Presubmit is returned unchanged.
C19_PresubmitRecovery ==
    [][\A w \in Workers :
          SubmitStart(w) =>
             /\ Len(dbSubs') = Len(dbSubs)
             /\ \A i \in 1..Len(dbSubs) :
                   IF dbSubs[i].status # "Presubmit"
                     THEN /\ dbSubs'[i] = dbSubs[i]
                          /\ RecoveryReturns(w)
                          /\ InWorkingSet(w, i)
                     ELSE \/ /\ dbSubs'[i] = [dbSubs[i] EXCEPT !.status = "Submitted"]
                             /\ Transaction(dbSubs[i]) \in broadcast
                             /\ RecoveryReturns(w)
                             /\ InWorkingSet(w, i)
                          \/ /\ dbSubs'[i] = dbSubs[i]
                             /\ ~(RecoveryReturns(w) /\ InWorkingSet(w, i))
             /\ RecoveryReturns(w) =>
                   /\ \A k \in 1..Len(wk'[w].ctx) :
                         /\ wk'[w].ctx[k].id \in 1..Len(dbSubs)
                         /\ InWorkingSet(w, wk'[w].ctx[k].id)
                   /\ \A j, k \in 1..Len(wk'[w].ctx) :
                         j < k => wk'[w].ctx[j].id < wk'[w].ctx[k].id]_vars

\* a recovery has just promoted one Presubmit submission and left another out
C19_OnePromotedOneLeftOut ==
    \E w \in Workers :
        /\ wk[w].pc = "watch"
        /\ wk[w].gasEstimate = "MAX_GAS_ESTIMATE"
        /\ Len(dbSubs) = 2
        /\ Len(wk[w].ctx) = 1
        /\ \E i, j \in 1..Len(dbSubs) :
              /\ dbSubs[i].status = "Presubmit"
              /\ dbSubs[j].status = "Submitted"
              /\ wk[w].ctx[1].id = j

\* ------------------------------------------------------- failed resubmissions
\* the node refuses the transaction that worker w is about to send
NonceTooLow(w) == Transaction(NewSubmission(w)).nonce < getNonce(w)

\* C20: when a resubmission fails with "nonce too low" the loop does not
\* throw, adds no transaction to the SubmissionContext and goes on polling;
\* any other error of a resubmission propagates out of submitJobToChainAsync.
C20_NonceTooLowIsSwallowed ==
    [][\A w \in Workers :
          (TxBroadcast(w) /\ ~wk[w].first) =>
             IF NonceTooLow(w)
               THEN /\ wk'[w].pc = "watch"
                    /\ wk'[w].ctx = wk[w].ctx
                    /\ wk'[w].job = wk[w].job
                    /\ broadcast' = broadcast
               ELSE \/ wk'[w].pc = "tx_mark" /\ Transaction(NewSubmission(w)) \in broadcast'
                    \/ wk'[w].pc = "idle" /\ broadcast' = broadcast]_vars

\* a resubmission was refused for its nonce and the loop is polling again
C20_PollingAfterNonceTooLow ==
    \E w \in Workers :
        /\ wk[w].pc = "watch"
        /\ ~wk[w].first
        /\ wk[w].gasEstimate = "estimated"
        /\ Len(wk[w].ctx) = 1
        /\ Len(dbSubs) = 2
        /\ dbSubs[2].status = "Presubmit"
        /\ Transaction(dbSubs[2]) \notin broadcast
        /\ dbSubs[2].nonce < getNonce(w)
        /\ dbSubs[2].nonce = wk[w].nonce

\* ------------------------------------------------------------ the error boundary
\* the step is a processJobAsync call of worker w returning
Returns(w) == wk[w].pc # "idle" /\ wk'[w].pc = "idle"

PriceCheck == {"prep_price_check", "prep_write_bps"}

\* C22: when the maker returns no signature, FailedLastLookDeclined is stored
\* before the price check starts; whatever the price check does (a price, no
\* price, an exception, a failing save of the metric) the stored status stays
\* FailedLastLookDeclined, prepareV2JobAsync throws and no transaction is
\* submitted.
C22_DeclineSurvivesPriceCheck ==
    [][\A w \in Workers :
          /\ PrepareWriteDeclined(w) =>
                dbJob'.status = "FailedLastLookDeclined" /\ wk'[w].pc = "prep_price_check"
          /\ wk[w].pc \in PriceCheck =>
                /\ dbJob.status = "FailedLastLookDeclined"
                /\ dbJob'.status = "FailedLastLookDeclined"
                /\ dbJob'.lastLookResult = "false"
                /\ wk'[w].pc \in PriceCheck \cup {"idle"}
                /\ wk'[w].pc = "idle" => wk'[w].counted = "RFQM_JOB_COMPLETED_WITH_ERROR"
                /\ broadcast' = broadcast
                /\ dbSubs' = dbSubs]_vars

\* the price check of a declined order ended with the metric saved
C22_DeclinedWithMetricSaved ==
    \E w \in Workers :
        /\ wk[w].pc = "idle"
        /\ wk[w].counted = "RFQM_JOB_COMPLETED_WITH_ERROR"
        /\ dbJob.status = "FailedLastLookDeclined"
        /\ dbJob.llRejectPriceDifferenceBps = "set"
        /\ dbSubs = <<>>

\* ------------------------------------------------------- the signature request
\* C23: within one prepareV2JobAsync call the maker signature request is
\* attempted at most 3 times; when every attempt throws, FailedSignFailed is
\* stored and the call throws; a response without a signature ends the
\* attempts at once and is stored as FailedLastLookDeclined, never as
\* FailedSignFailed.
C23_SignAttempts ==
    [][\A w \in Workers :
          /\ wk[w].pc = "prep_sign" => wk[w].attempt \in 1..SignMaxAttempts
          /\ PrepareSign(w) =>
                /\ wk'[w].pc = "prep_sign" =>
                      wk'[w].attempt = wk[w].attempt + 1 /\ wk'[w].attempt <= 3
                /\ wk'[w].pc = "prep_write_signfailed" =>
                      wk[w].attempt = 3 /\ wk'[w].job.status = "FailedSignFailed"
                /\ wk'[w].pc = "prep_write_declined" =>
                      wk'[w].job.status = "FailedLastLookDeclined"
                /\ wk'[w].pc \in {"prep_sign", "prep_write_signfailed",
                                  "prep_write_declined", "prep_write_accepted"}
          /\ PrepareWriteSignFailed(w) =>
                /\ dbJob'.status = "FailedSignFailed"
                /\ wk'[w].pc = "idle"
                /\ wk'[w].counted = "RFQM_JOB_COMPLETED_WITH_ERROR"
          /\ PrepareWriteDeclined(w) => dbJob'.status = "FailedLastLookDeclined"]_vars

\* three attempts of the signature request threw and the failure is stored
C23_SignFailedStored ==
    \E w \in Workers :
        /\ wk[w].pc = "idle"
        /\ wk[w].counted = "RFQM_JOB_COMPLETED_WITH_ERROR"
        /\ dbJob.status = "FailedSignFailed"
        /\ dbJob.makerSignature = NoSignature

\* ------------------------------------------------------- the pre-sign balances
\* C24: if at last look the maker's balance is below the order's maker amount
\* or the taker's balance is below the taker amount, the Job is stored as
\* FailedPresignValidationFailed, no signature request is sent to the maker,
\* and preparation throws.
C24_ShortBalanceFailsPresign ==
    [][\A w \in Workers :
          /\ PrepareBalances(w) =>
                (wk'[w].pc = "prep_write_presign") =
                   (\/ wk'[w].balances.maker < MakerAmount
                    \/ wk'[w].balances.taker < TakerAmount)
          /\ wk[w].pc = "prep_write_presign" =>
                /\ ~SignRequestSent(w)
                /\ wk'[w].pc \in {"prep_write_presign", "idle"}
                /\ wk'[w].pc = "idle" => wk'[w].counted = "RFQM_JOB_COMPLETED_WITH_ERROR"
                /\ PrepareWritePresignFailed(w) =>
                      dbJob'.status = "FailedPresignValidationFailed"
          /\ SignRequestSent(w) /\ wk[w].attempt = 1 =>
                /\ wk[w].balances.maker >= MakerAmount
                /\ wk[w].balances.taker >= TakerAmount]_vars

\* only the taker is short and the failure is about to be stored
C24_TakerShort ==
    \E w \in Workers :
        /\ wk[w].pc = "prep_write_presign"
        /\ wk[w].balances.maker >= MakerAmount
        /\ wk[w].balances.taker < TakerAmount
        /\ wk[w].job.status = "FailedPresignValidationFailed"

\* --------------------------------------------------------- the eth_call validation
\* the positions after the eth_call validation has failed for good
EthCallFailed == {"prep_write_ethcall", "prep_extra_context"}

\* C25: the simulation before the first submission is attempted at most 3
\* times; when every attempt fails FailedEthCallFailed is stored and no
\* transaction is submitted, and a failure of the balance and block
\* diagnostics that follow leaves that status as it is.
C25_EthCallAttempts ==
    [][\A w \in Workers :
          /\ wk[w].pc = "prep_eth_call" => wk[w].attempt \in 1..EthCallMaxAttempts
          /\ PrepareEthCall(w) =>
                /\ wk'[w].pc = "prep_eth_call" =>
                      wk'[w].attempt = wk[w].attempt + 1 /\ wk'[w].attempt <= 3
                /\ wk'[w].pc = "prep_write_ethcall" =>
                      wk[w].attempt = 3 /\ wk'[w].job.status = "FailedEthCallFailed"
          /\ PrepareWriteEthCallFailed(w) =>
                dbJob'.status = "FailedEthCallFailed" /\ wk'[w].pc = "prep_extra_context"
          /\ wk[w].pc = "prep_extra_context" =>
                /\ dbJob.status = "FailedEthCallFailed"
                /\ dbJob' = dbJob
          /\ wk[w].pc \in EthCallFailed =>
                /\ wk'[w].pc \in EthCallFailed \cup {"idle"}
                /\ wk'[w].pc = "idle" => wk'[w].counted = "RFQM_JOB_COMPLETED_WITH_ERROR"
                /\ broadcast' = broadcast
                /\ dbSubs' = dbSubs]_vars

\* three simulations failed, the failure is stored and the call has ended
C25_EthCallFailedStored ==
    \E w \in Workers :
        /\ wk[w].pc = "idle"
        /\ wk[w].counted = "RFQM_JOB_COMPLETED_WITH_ERROR"
        /\ dbJob.status = "FailedEthCallFailed"
        /\ dbSubs = <<>>

\* ------------------------------------------------ submitTakerSignedOtcOrderAsync
\* The request is checked: the quote is known, the expiry is far enough, the
\* taker has no other pending trade, the signature is the taker's, the
\* balances suffice.  A failing check ends the request with its error.
SubmitOrderValidate(t) ==
    /\ api[t].pc = "idle"
    /\ \E valid \in BOOLEAN :
         api' = [api EXCEPT ![t] =
                    IF valid THEN [pc |-> "write", response |-> "null"]
                    ELSE [pc |-> "idle", response |-> "ValidationError"]]
    /\ UNCHANGED <<dbJob, dbSubs, broadcast, receipts, blockNumber, now, wk>>
    /\ UNCHANGED <<queue, before, lastHeartbeatTime, heartbeat, quoteVars, tradeVars, feeVars>>

\* an insert whose failure is ignored
SubmitWriteJobIgnoringFailure(t) ==
    /\ api[t].pc = "write"
    /\ dbJob' = (IF dbJob = NullJob THEN NewJob ELSE dbJob)
    /\ api' = [api EXCEPT ![t] = [pc |-> "enqueue", response |-> "null"]]
    /\ UNCHANGED <<dbSubs, broadcast, receipts, blockNumber, now, wk>>
    /\ UNCHANGED <<queue, before, lastHeartbeatTime, heartbeat, quoteVars, tradeVars, feeVars>>

\* writeV2JobAsync inside the try: the insert fails when a row of the order
\* hash exists, and may fail otherwise; the failure ends the request with
\* "failed to queue the quote for submission"
SubmitWriteJob(t) ==
    /\ api[t].pc = "write"
    /\ \/ /\ dbJob = NullJob
          /\ dbJob' = NewJob
          /\ api' = [api EXCEPT ![t] = [pc |-> "enqueue", response |-> "null"]]
       \/ /\ UNCHANGED dbJob
          /\ api' = [api EXCEPT ![t] = [pc |-> "idle", response |-> "InternalServerError"]]
    /\ UNCHANGED <<dbSubs, broadcast, receipts, blockNumber, now, wk>>
    /\ UNCHANGED <<queue, before, lastHeartbeatTime, heartbeat, quoteVars, tradeVars, feeVars>>

\* _enqueueJobAsync: the message is sent, or the send throws
EnqueueJob(t) ==
    /\ api[t].pc = "enqueue"
    /\ \/ /\ queue < MaxQueued
          /\ queue' = queue + 1
          /\ api' = [api EXCEPT ![t] = [pc |-> "idle", response |-> "OtcOrder"]]
       \/ /\ UNCHANGED queue
          /\ api' = [api EXCEPT ![t] = [pc |-> "idle", response |-> "InternalServerError"]]
    /\ UNCHANGED <<dbJob, dbSubs, broadcast, receipts, blockNumber, now, wk>>
    /\ UNCHANGED <<before, lastHeartbeatTime, heartbeat, quoteVars, tradeVars, feeVars>>

\* no Job is stored, no message sent
InitSubmit ==
    /\ dbJob = NullJob
    /\ dbSubs = <<>>
    /\ broadcast = {}
    /\ receipts = {}
    /\ blockNumber = 0
    /\ now = 0
    /\ wk = [w \in Workers |-> IdleWorker]
    /\ queue = 0
    /\ ServiceIdle

\* the takers submit the same signed order, any number of times, at once
NextSubmit ==
    \E t \in Takers :
        \/ SubmitOrderValidate(t)
        \/ SubmitWriteJob(t)
        \/ EnqueueJob(t)

SpecSubmit == InitSubmit /\ [][NextSubmit]_vars

\* C26: submitTakerSignedOtcOrderAsync sends the queue message of an order
\* hash only after the Job row was inserted; the same order submitted again
\* fails at the insert and sends no second message; so the order hash is
\* enqueued at most once, and never without a stored Job.
C26_EnqueuedOnceAfterInsert ==
    [][/\ queue <= 1
       /\ queue > 0 => dbJob # NullJob
       /\ queue' # queue =>
             /\ queue' = queue + 1
             /\ dbJob # NullJob /\ dbJob' = dbJob
       /\ \A t \in Takers :
             (SubmitWriteJob(t) /\ dbJob # NullJob) =>
                /\ api'[t] = [pc |-> "idle", response |-> "InternalServerError"]
                /\ queue' = queue
                /\ dbJob' = dbJob]_vars

\* the order was submitted twice: one request enqueued it, the other failed
C26_SecondSubmissionRefused ==
    \E t, u \in Takers :
        /\ api[t] = [pc |-> "idle", response |-> "OtcOrder"]
        /\ api[u] = [pc |-> "idle", response |-> "InternalServerError"]
        /\ queue = 1
        /\ dbJob = NewJob

\* ------------------------------------------------------ workerBeforeLogicAsync
\* the clock's instants around the heartbeat interval, and one past the
\* Job's grace window
HeartbeatInstants ==
    {0, WORKER_HEARTBEAT_FREQUENCY_S - 1, WORKER_HEARTBEAT_FREQUENCY_S,
     2 * WORKER_HEARTBEAT_FREQUENCY_S - 1, JobExpiry + 2 * ONE_MINUTE_S + 1}

\* the readiness check returns
BeforeReturns(value) == before' = [before EXCEPT !.pc = "idle", !.returned = value]

\* a gas price failure that is logged and passed over
BeforeGasPriceErrorIgnored(w) ==
    /\ before.pc = "idle"
    /\ wk[w].pc = "idle"
    /\ \E fetched \in BOOLEAN :
         before' = [IdleBefore EXCEPT
                      !.pc = "scan", !.gasPrice = IF fetched THEN "fetched" ELSE "error"]
    /\ UNCHANGED <<dbJob, dbSubs, broadcast, receipts, blockNumber, now, wk>>
    /\ UNCHANGED <<queue, api, lastHeartbeatTime, heartbeat, quoteVars, tradeVars, feeVars>>

\* The gas price estimate is fetched.  When the fetch throws, the worker is
\* counted not ready and false is returned.
BeforeGasPrice(w) ==
    /\ before.pc = "idle"
    /\ wk[w].pc = "idle"
    /\ \E fetched \in BOOLEAN :
         before' = IF fetched
                     THEN [IdleBefore EXCEPT !.pc = "scan", !.gasPrice = "fetched"]
                     ELSE [IdleBefore EXCEPT !.gasPrice = "error", !.returned = "false"]
    /\ UNCHANGED <<dbJob, dbSubs, broadcast, receipts, blockNumber, now, wk>>
    /\ UNCHANGED <<queue, api, lastHeartbeatTime, heartbeat, quoteVars, tradeVars, feeVars>>

\* findV2UnresolvedJobsAsync: how many Jobs the worker owns that are not yet
\* terminal
findV2UnresolvedJobs(w) ==
    IF dbJob.workerAddress = w /\ dbJob.status \notin TerminalStatuses THEN 1 ELSE 0

\* the balance is fetched and the worker's unresolved Jobs are looked up
BeforeScan(w) ==
    /\ before.pc = "scan"
    /\ before' = [before EXCEPT !.pc = "reprocess", !.found = findV2UnresolvedJobs(w)]
    /\ UNCHANGED <<dbJob, dbSubs, broadcast, receipts, blockNumber, now, wk>>
    /\ UNCHANGED <<queue, api, lastHeartbeatTime, heartbeat, quoteVars, tradeVars, feeVars>>

\* a loop that leaves the Jobs it found alone
BeforeReprocessNone(w) ==
    /\ before.pc = "reprocess"
    /\ before' = [before EXCEPT !.pc = "ready"]
    /\ UNCHANGED wk
    /\ UNCHANGED <<dbJob, dbSubs, broadcast, receipts, blockNumber, now>>
    /\ UNCHANGED <<queue, api, lastHeartbeatTime, heartbeat, quoteVars, tradeVars, feeVars>>

\* The loop over the order hashes found: processJobAsync is called for the
\* next one and awaited; after the last one the readiness test follows.
BeforeReprocess(w) ==
    /\ before.pc = "reprocess"
    /\ before' = [before EXCEPT
                    !.pc = IF before.processed < before.found THEN "processing" ELSE "ready"]
    /\ wk' = IF before.processed < before.found THEN [wk EXCEPT ![w] = IdleWorker] ELSE wk
    /\ UNCHANGED <<dbJob, dbSubs, broadcast, receipts, blockNumber, now>>
    /\ UNCHANGED <<queue, api, lastHeartbeatTime, heartbeat, quoteVars, tradeVars, feeVars>>

\* the awaited processJobAsync call has returned
BeforeProcessed(w) ==
    /\ before.pc = "processing"
    /\ wk[w].pc = "idle" /\ wk[w].counted # "null"
    /\ before' = [before EXCEPT !.pc = "reprocess", !.processed = before.processed + 1]
    /\ UNCHANGED <<dbJob, dbSubs, broadcast, receipts, blockNumber, now, wk>>
    /\ UNCHANGED <<queue, api, lastHeartbeatTime, heartbeat, quoteVars, tradeVars, feeVars>>

\* a heartbeat counted as fresh a second too early
HeartbeatFreshOneSecondLess(last, nowS) ==
    last.recorded /\ nowS - last.time < WORKER_HEARTBEAT_FREQUENCY_S - 1

\* the last heartbeat is younger than the heartbeat interval
HeartbeatFresh(last, nowS) ==
    last.recorded /\ nowS - last.time < WORKER_HEARTBEAT_FREQUENCY_S

\* isWorkerReadyAsync, then the test of the last heartbeat's age: a worker
\* that is not ready returns false, one with a fresh heartbeat returns true
BeforeReady(w) ==
    /\ before.pc = "ready"
    /\ \E isWorkerReady \in BOOLEAN :
         IF ~isWorkerReady THEN BeforeReturns("false")
         ELSE IF HeartbeatFresh(lastHeartbeatTime, now) THEN BeforeReturns("true")
         ELSE before' = [before EXCEPT !.pc = "heartbeat"]
    /\ UNCHANGED <<dbJob, dbSubs, broadcast, receipts, blockNumber, now, wk>>
    /\ UNCHANGED <<queue, api, lastHeartbeatTime, heartbeat, quoteVars, tradeVars, feeVars>>

\* upsertRfqmWorkerHeartbeatToDbAsync inside the try: the heartbeat is
\* written, or the write (or the missing worker index) throws, which is
\* logged, and true is returned
BeforeHeartbeat(w) ==
    /\ before.pc = "heartbeat"
    /\ \/ /\ heartbeat' = [recorded |-> TRUE, time |-> now]
          /\ before' = [before EXCEPT !.pc = "set_time"]
       \/ /\ UNCHANGED heartbeat
          /\ BeforeReturns("true")
    /\ UNCHANGED <<dbJob, dbSubs, broadcast, receipts, blockNumber, now, wk>>
    /\ UNCHANGED <<queue, api, lastHeartbeatTime, quoteVars, tradeVars, feeVars>>

\* _lastHeartbeatTime = new Date(), and true is returned
BeforeSetTime(w) ==
    /\ before.pc = "set_time"
    /\ lastHeartbeatTime' = [recorded |-> TRUE, time |-> now]
    /\ BeforeReturns("true")
    /\ UNCHANGED <<dbJob, dbSubs, broadcast, receipts, blockNumber, now, wk>>
    /\ UNCHANGED <<queue, api, heartbeat, quoteVars, tradeVars, feeVars>>

\* The worker handles the Job: as the processJobAsync call that the
\* readiness check awaits, or for a queue message, which it is handed only
\* after the readiness check returned true.
HandleJob(w) ==
    /\ \/ before.pc = "processing" /\ ~(wk[w].pc = "idle" /\ wk[w].counted # "null")
       \/ before.pc = "idle" /\ before.returned = "true"
    /\ WorkerStep(w)

TickBefore ==
    /\ \E t \in HeartbeatInstants : t > now /\ now' = t
    /\ UNCHANGED <<dbJob, dbSubs, broadcast, receipts, blockNumber, wk, serviceVars>>

\* One worker process alternates readiness checks and queue messages while
\* the clock runs; the chain stands still.
NextBefore ==
    \/ BeforeGasPrice(Processor)
    \/ BeforeScan(Processor)
    \/ BeforeReprocess(Processor)
    \/ BeforeProcessed(Processor)
    \/ BeforeReady(Processor)
    \/ BeforeHeartbeat(Processor)
    \/ BeforeSetTime(Processor)
    \/ HandleJob(Processor)
    \/ TickBefore

SpecBefore == Init /\ [][NextBefore]_vars

\* the readiness check returns value to its caller
ReadinessReturns(value) ==
    before.pc # "idle" /\ before'.pc = "idle" /\ before'.returned = value

\* a processJobAsync call of worker w starts
CallStarts(w) == wk[w].pc = "idle" /\ wk'[w].pc # "idle"

\* C27: workerBeforeLogicAsync returns true only after processJobAsync ran
\* to completion for every unresolved Job of the worker that the scan found,
\* each in a call of its own that has returned; a call for a queue message
\* starts only when none of the Jobs found is left unprocessed.
C27_ReadyOnlyAfterReprocessing ==
    [][/\ ReadinessReturns("true") =>
             /\ before.processed = before.found
             /\ wk[Processor].pc = "idle"
       /\ before'.processed > before.processed =>
             /\ before'.processed = before.processed + 1
             /\ before.pc = "processing"
             /\ Returns(Processor) = FALSE
             /\ wk[Processor].pc = "idle"
             /\ wk[Processor].counted \in {"RFQM_JOB_COMPLETED", "RFQM_JOB_COMPLETED_WITH_ERROR"}
       /\ before.pc \in {"ready", "heartbeat", "set_time"} =>
             /\ before.processed = before.found
             /\ wk'[Processor] = wk[Processor]
       /\ (CallStarts(Processor) /\ before.pc # "processing") =>
             /\ before.returned = "true"
             /\ before.processed = before.found]_vars

\* the check found the worker's unresolved Job, reprocessed it, which took
\* the Job to FailedExpired, and returned true
C27_ReadyAfterOneReprocessed ==
    /\ before.pc = "idle"
    /\ before.returned = "true"
    /\ before.found = 1
    /\ before.processed = 1
    /\ wk[Processor].counted = "RFQM_JOB_COMPLETED_WITH_ERROR"
    /\ dbJob.status = "FailedExpired"
    /\ Len(dbSubs) > 0

\* what a readiness check that only fetches the gas price leaves alone
UntouchedByGasPrice == <<wk, dbJob, dbSubs, broadcast, lastHeartbeatTime, heartbeat>>

\* C28: when the gas price fetch throws, workerBeforeLogicAsync returns
\* false without throwing, reprocesses no Job and writes no heartbeat.
C28_GasPriceFailureNotReady ==
    [][before'.gasPrice = "error" =>
          /\ before'.pc = "idle"
          /\ before'.returned = "false"
          /\ before'.found = 0 /\ before'.processed = 0
          /\ UNCHANGED UntouchedByGasPrice]_vars

\* the fetch failed while an unresolved Job of the worker was stored and a
\* heartbeat was due
C28_NotReadyWithWorkLeft ==
    /\ before.gasPrice = "error"
    /\ before.returned = "false"
    /\ findV2UnresolvedJobs(Processor) = 1
    /\ ~HeartbeatFresh(lastHeartbeatTime, now)

\* the heartbeat write succeeds, and fails
HeartbeatWritten == before.pc = "heartbeat" /\ before'.pc = "set_time"
HeartbeatFailed == before.pc = "heartbeat" /\ before'.pc = "idle"

\* C29: two successful heartbeat writes are at least 30 s apart; a failing
\* write leaves the worker ready (true is returned) and does not advance the
\* last heartbeat time, so that the next readiness check that gets as far
\* tries the write again.
C29_HeartbeatInterval ==
    [][/\ (HeartbeatWritten /\ heartbeat.recorded) =>
             /\ heartbeat'.time - heartbeat.time >= WORKER_HEARTBEAT_FREQUENCY_S
             /\ heartbeat'.time = now
       /\ HeartbeatFailed =>
             /\ before'.returned = "true"
             /\ lastHeartbeatTime' = lastHeartbeatTime
             /\ heartbeat' = heartbeat
             /\ ~HeartbeatFresh(lastHeartbeatTime', now')
       /\ (before.pc = "ready" /\ before' # before /\ ~HeartbeatFresh(lastHeartbeatTime, now)) =>
             \/ before'.pc = "heartbeat"
             \/ before'.returned = "false"
       /\ lastHeartbeatTime' # lastHeartbeatTime =>
             /\ before.pc = "set_time"
             /\ heartbeat.recorded
             /\ lastHeartbeatTime'.time >= heartbeat.time]_vars

\* a second heartbeat was written, an interval or more after the first
C29_SecondHeartbeatWritten ==
    /\ before.pc = "set_time"
    /\ lastHeartbeatTime.recorded
    /\ heartbeat.recorded
    /\ heartbeat.time - lastHeartbeatTime.time >= WORKER_HEARTBEAT_FREQUENCY_S

\* the fees the claim gives a first submission, for each estimate the fee
\* service may return
FirstSubmissionFees ==
    {[maxFeePerGas |-> 2 * (estimate * Gwei) + InitialMaxPriorityFeePerGasGwei * Gwei,
      maxPriorityFeePerGas |-> InitialMaxPriorityFeePerGasGwei * Gwei] :
        estimate \in GasPriceEstimatesGwei}

\* the fees of a submission row or of a transaction
FeesOf(x) == [maxFeePerGas |-> x.maxFeePerGas, maxPriorityFeePerGas |-> x.maxPriorityFeePerGas]

\* C30: the first submission of a Job uses maxPriorityFeePerGas = the
\* configured initial value and maxFeePerGas = 2 x the current gas price
\* estimate + that priority fee: these are the fees the call computes, the
\* fees of the row it writes and the fees of the transaction it sends.
C30_FirstSubmissionFees ==
    [][\A w \in Workers :
         /\ (wk[w].pc = "submit_start" /\ wk'[w].pc = "submit_write_submitted") =>
               wk'[w].gasFees \in FirstSubmissionFees
         /\ (wk[w].first /\ wk[w].pc = "tx_presubmit" /\ wk'[w].pc = "tx_broadcast") =>
               /\ Len(dbSubs') = Len(dbSubs) + 1
               /\ FeesOf(dbSubs'[Len(dbSubs')]) \in FirstSubmissionFees
         /\ (wk[w].first /\ wk[w].pc = "tx_broadcast" /\ wk'[w].pc = "tx_mark") =>
               \E tx \in broadcast' :
                   /\ tx.from = w /\ tx.nonce = wk[w].nonce
                   /\ FeesOf(tx) \in FirstSubmissionFees
                   /\ FeesOf(tx) = FeesOf(dbSubs[wk[w].subId])]_vars

\* a first transaction was sent at an estimate of 100 gwei: 202 and 2 gwei
C30_FirstSentAtHundredGwei ==
    \E w \in Workers :
        /\ wk[w].pc = "tx_mark"
        /\ wk[w].first
        /\ \E tx \in broadcast :
              /\ tx.from = w
              /\ tx.maxFeePerGas = 202 * Gwei
              /\ tx.maxPriorityFeePerGas = 2 * Gwei

\* ------------------------------------- fetchIndicativeQuoteAsync, fetchFirmQuoteAsync
\* what a maker may quote: amounts of 1 or 2, an expiry at the end of the
\* minimum expiry duration or a second later, with or without a known URI
QuoteAmounts == {1, 2}
Quotes ==
    [makerAmount : QuoteAmounts, takerAmount : QuoteAmounts,
     expiry : {RFQM_MINIMUM_EXPIRY_DURATION_S, RFQM_MINIMUM_EXPIRY_DURATION_S + 1},
     hasMakerUri : BOOLEAN]

QuoteLists == UNION {[1..n -> Quotes] : n \in 0..MaxQuotes}

\* quote a has a better price for the taker than quote b: more maker asset
\* per taker asset
BetterPrice(a, b) == a.makerAmount * b.takerAmount > b.makerAmount * a.takerAmount

\* getBestQuote: among the quotes whose expiry exceeds now plus the validity
\* window, the first of those with the best price; none if there is no such
\* quote
getBestQuote(quotes, nowS, validityWindowS) ==
    LET valid == {i \in 1..Len(quotes) : quotes[i].expiry > nowS + validityWindowS}
        best == {i \in valid : \A j \in valid : ~BetterPrice(quotes[j], quotes[i])}
    IN  IF valid = {} THEN NoQuote
        ELSE quotes[CHOOSE i \in best : \A j \in best : i <= j]

\* The makers' indicative quotes are fetched and the best is chosen; without
\* one null is returned, else the response is built from it.
FetchIndicativeQuote ==
    /\ \E quotes \in QuoteLists, isSelling \in BOOLEAN :
         LET bestQuote == getBestQuote(quotes, now, RFQM_MINIMUM_EXPIRY_DURATION_S)
         IN  rfq' = [quotes |-> quotes, isSelling |-> isSelling, firm |-> FALSE,
                     outcome |-> IF bestQuote = NoQuote THEN "null" ELSE "quote",
                     bestQuote |-> bestQuote, stored |-> NoQuote]
    /\ UNCHANGED <<dbJob, dbSubs, broadcast, receipts, blockNumber, now, wk>>
    /\ UNCHANGED <<queue, api, before, lastHeartbeatTime, heartbeat, tradeVars, feeVars>>
    /\ UNCHANGED <<tokenDecimalsCache, onchainDecimals, onchainQueries, decimalsCall>>

\* a firm quote chosen without regard to the minimum expiry duration
FetchFirmQuoteAnyExpiry ==
    /\ \E quotes \in QuoteLists, isSelling \in BOOLEAN :
         LET bestQuote == getBestQuote(quotes, now, 0)
             outcome == IF bestQuote = NoQuote THEN "null"
                        ELSE IF ~bestQuote.hasMakerUri THEN "throws"
                        ELSE "quote"
         IN  rfq' = [quotes |-> quotes, isSelling |-> isSelling, firm |-> TRUE,
                     outcome |-> outcome, bestQuote |-> bestQuote,
                     stored |-> IF outcome = "quote" THEN bestQuote ELSE NoQuote]
    /\ UNCHANGED <<dbJob, dbSubs, broadcast, receipts, blockNumber, now, wk>>
    /\ UNCHANGED <<queue, api, before, lastHeartbeatTime, heartbeat, tradeVars, feeVars>>
    /\ UNCHANGED <<tokenDecimalsCache, onchainDecimals, onchainQueries, decimalsCall>>

\* The makers' firm quotes are fetched and the best is chosen; without one
\* null is returned; a best quote whose maker URI is unknown throws; else the
\* quote is stored (writeV2QuoteAsync) and the response is built from it.
FetchFirmQuote ==
    /\ \E quotes \in QuoteLists, isSelling \in BOOLEAN :
         LET bestQuote == getBestQuote(quotes, now, RFQM_MINIMUM_EXPIRY_DURATION_S)
             outcome == IF bestQuote = NoQuote THEN "null"
                        ELSE IF ~bestQuote.hasMakerUri THEN "throws"
                        ELSE "quote"
         IN  rfq' = [quotes |-> quotes, isSelling |-> isSelling, firm |-> TRUE,
                     outcome |-> outcome, bestQuote |-> bestQuote,
                     stored |-> IF outcome = "quote" THEN bestQuote ELSE NoQuote]
    /\ UNCHANGED <<dbJob, dbSubs, broadcast, receipts, blockNumber, now, wk>>
    /\ UNCHANGED <<queue, api, before, lastHeartbeatTime, heartbeat, tradeVars, feeVars>>
    /\ UNCHANGED <<tokenDecimalsCache, onchainDecimals, onchainQueries, decimalsCall>>

\* quote requests are served one after the other
NextQuote ==
    \/ FetchIndicativeQuote
    \/ FetchFirmQuote

SpecQuote == InitSubmit /\ [][NextQuote]_vars

\* the fetched quotes that satisfy the expiry buffer
SatisfyBuffer ==
    {i \in 1..Len(rfq.quotes) : rfq.quotes[i].expiry > now + RFQM_MINIMUM_EXPIRY_DURATION_S}

\* C31: fetchIndicativeQuoteAsync and fetchFirmQuoteAsync return null, and
\* fetchFirmQuoteAsync stores no quote, when no fetched quote expires beyond
\* now + the minimum expiry duration, whatever the prices of the quotes that
\* fail the buffer; when some quote satisfies it, null is not returned and a
\* result is built from a quote that satisfies it and whose price none of
\* the others satisfying it betters.
C31_BestAmongUnexpired ==
    rfq.outcome # "none" =>
        /\ SatisfyBuffer = {} => (rfq.outcome = "null" /\ rfq.stored = NoQuote)
        /\ SatisfyBuffer # {} => rfq.outcome \in {"quote", "throws"}
        /\ rfq.outcome = "quote" =>
              /\ \E i \in SatisfyBuffer : rfq.quotes[i] = rfq.bestQuote
              /\ \A j \in SatisfyBuffer : ~BetterPrice(rfq.quotes[j], rfq.bestQuote)
              /\ rfq.stored = (IF rfq.firm THEN rfq.bestQuote ELSE NoQuote)
        /\ rfq.outcome # "quote" => rfq.stored = NoQuote

\* a firm quote was built from the quote satisfying the buffer although
\* the other one, failing it, had the better price
C31_CheaperStaleQuotePassedOver ==
    /\ rfq.firm
    /\ rfq.outcome = "quote"
    /\ rfq.stored = rfq.bestQuote
    /\ \E i \in 1..Len(rfq.quotes) :
          /\ i \notin SatisfyBuffer
          /\ BetterPrice(rfq.quotes[i], rfq.bestQuote)

\* ------------------------------------------------------- getTokenDecimalsAsync
\* the test "if (cachedDecimals)" on what the cache's get returned: undefined
\* and 0 are both falsy
Truthy(entry) == entry.cached /\ entry.decimals # 0

\* The decimals of a token without local metadata: a truthy cache entry is
\* returned; otherwise the token contract is asked, the answer is cached and
\* returned, and a failing read throws with nothing cached.
GetTokenDecimals(token) ==
    /\ IF Truthy(tokenDecimalsCache[token])
         THEN /\ decimalsCall' = [token |-> token, outcome |-> "value",
                                  decimals |-> tokenDecimalsCache[token].decimals,
                                  queried |-> FALSE]
              /\ UNCHANGED <<tokenDecimalsCache, onchainQueries>>
         ELSE /\ onchainQueries[token] < MaxQueries
              /\ onchainQueries' = [onchainQueries EXCEPT ![token] = @ + 1]
              /\ \/ /\ decimalsCall' = [token |-> token, outcome |-> "throws",
                                        decimals |-> 0, queried |-> TRUE]
                    /\ UNCHANGED tokenDecimalsCache
                 \/ /\ tokenDecimalsCache' =
                          [tokenDecimalsCache EXCEPT
                             ![token] = [cached |-> TRUE, decimals |-> onchainDecimals[token]]]
                    /\ decimalsCall' = [token |-> token, outcome |-> "value",
                                        decimals |-> onchainDecimals[token],
                                        queried |-> TRUE]
    /\ UNCHANGED <<dbJob, dbSubs, broadcast, receipts, blockNumber, now, wk>>
    /\ UNCHANGED <<queue, api, before, lastHeartbeatTime, heartbeat, tradeVars, feeVars>>
    /\ UNCHANGED <<rfq, onchainDecimals>>

\* a new service instance; each token contract has its decimals
InitDecimals ==
    /\ dbJob = NullJob
    /\ dbSubs = <<>>
    /\ broadcast = {}
    /\ receipts = {}
    /\ blockNumber = 0
    /\ now = 0
    /\ wk = [w \in Workers |-> IdleWorker]
    /\ queue = 0
    /\ api = [t \in Takers |-> IdleSubmission]
    /\ before = IdleBefore
    /\ lastHeartbeatTime = NoTime
    /\ heartbeat = NoTime
    /\ rfq = NoRfq
    /\ tokenDecimalsCache = [t \in Tokens |-> NotCached]
    /\ onchainDecimals \in [Tokens -> DecimalsValues]
    /\ onchainQueries = [t \in Tokens |-> 0]
    /\ decimalsCall = NoDecimalsCall
    /\ TradesIdle
    /\ FeesIdle

NextDecimals == \E token \in Tokens : GetTokenDecimals(token)

SpecDecimals == InitDecimals /\ [][NextDecimals]_vars

\* C32: once getTokenDecimalsAsync has fetched a token's decimals from the
\* chain, every later call for that token returns the same value without
\* another on-chain query, whatever the value, 0 included; a fetch that
\* throws caches nothing.
C32_FetchedOnce ==
    [][\A token \in Tokens :
          GetTokenDecimals(token) =>
             /\ tokenDecimalsCache[token].cached =>
                   /\ onchainQueries' = onchainQueries
                   /\ decimalsCall'.outcome = "value"
                   /\ decimalsCall'.decimals = tokenDecimalsCache[token].decimals
             /\ decimalsCall'.outcome = "throws" =>
                   tokenDecimalsCache' = tokenDecimalsCache]_vars

\* ----------------------------------------------- the gas fees of a Job's submissions
\* initial priority fees a deployment may configure, and gas price estimates
\* the fee service may return, in gwei
InitialPriorityFeesGwei == {InitialMaxPriorityFeePerGasGwei, 30}
FeeEstimatesGwei == GasPriceEstimatesGwei \cup {0, 1, 5, 20, 40}

\* the first submission's fees
FirstFees ==
    /\ ~escalation.watching
    /\ \E initial \in InitialPriorityFeesGwei, estimate \in FeeEstimatesGwei :
         escalation' = [fees |-> InitialGasFeesFor(initial, estimate), cycles |-> 0,
                        watching |-> TRUE]
    /\ UNCHANGED <<dbJob, dbSubs, broadcast, receipts, blockNumber, now, wk>>
    /\ UNCHANGED <<queue, api, before, lastHeartbeatTime, heartbeat, quoteVars, tradeVars>>

\* A poll of the watch loop without a receipt, before the expiry: unless the
\* fee cap test stops it, a submission with escalated fees is made.
EscalateFees ==
    /\ escalation.watching
    /\ escalation.cycles < MaxCycles
    /\ ~ReachedFeeCap(escalation.fees)
    /\ \E estimate \in FeeEstimatesGwei :
         escalation' = [escalation EXCEPT
                          !.fees = EscalatedGasFees(escalation.fees, estimate),
                          !.cycles = @ + 1]
    /\ UNCHANGED <<dbJob, dbSubs, broadcast, receipts, blockNumber, now, wk>>
    /\ UNCHANGED <<queue, api, before, lastHeartbeatTime, heartbeat, quoteVars, tradeVars>>

NextFees ==
    \/ FirstFees
    \/ EscalateFees

SpecFees == InitSubmit /\ [][NextFees]_vars

\* C33: no submission carries a maxPriorityFeePerGas above
\* MAX_PRIORITY_FEE_PER_GAS_CAP (128 gwei), over any number of escalation
\* cycles and any sequence of gas price estimates.
C33_PriorityFeeWithinCap ==
    escalation.fees.maxPriorityFeePerGas <= MAX_PRIORITY_FEE_PER_GAS_CAP

\* C40: every submission has a maxFeePerGas of at least its
\* maxPriorityFeePerGas, the first and every escalated one, for any
\* non-negative gas price estimates.
C40_FeeCapCoversPriorityFee ==
    escalation.watching =>
        escalation.fees.maxFeePerGas >= escalation.fees.maxPriorityFeePerGas

\* with estimates of zero the two fees are equal after two escalations
C40_EqualAfterTwoCycles ==
    /\ escalation.cycles = 2
    /\ escalation.fees.maxFeePerGas = escalation.fees.maxPriorityFeePerGas
    /\ escalation.fees.maxPriorityFeePerGas > 0

\* ------------------------------- several orders of one taker and taker token
\* The request for order h reads the Jobs with a Pending-* status: when
\* another order of the taker and taker token is among them the request is
\* refused, otherwise it goes on (signature and balance checks are awaited)
\* to the insert.
SubmitCheckPending(h) ==
    /\ submitting[h].pc = "idle"
    /\ submitting' = [submitting EXCEPT ![h] =
          IF \E g \in OrderHashes \ {h} : trades[g] \in PendingStatuses
            THEN [pc |-> "idle", response |-> "TooManyRequestsError"]
            ELSE [pc |-> "write", response |-> "null"]]
    /\ UNCHANGED <<dbJob, dbSubs, broadcast, receipts, blockNumber, now, wk>>
    /\ UNCHANGED <<queue, api, before, lastHeartbeatTime, heartbeat, quoteVars, feeVars>>
    /\ UNCHANGED trades

\* the Job of order h is inserted as PendingEnqueued and enqueued; the insert
\* fails when the order has a Job
SubmitWriteTrade(h) ==
    /\ submitting[h].pc = "write"
    /\ IF trades[h] = "null"
         THEN /\ trades' = [trades EXCEPT ![h] = "PendingEnqueued"]
              /\ submitting' = [submitting EXCEPT
                                  ![h] = [pc |-> "idle", response |-> "OtcOrder"]]
         ELSE /\ UNCHANGED trades
              /\ submitting' = [submitting EXCEPT
                                  ![h] = [pc |-> "idle", response |-> "InternalServerError"]]
    /\ UNCHANGED <<dbJob, dbSubs, broadcast, receipts, blockNumber, now, wk>>
    /\ UNCHANGED <<queue, api, before, lastHeartbeatTime, heartbeat, quoteVars, feeVars>>

\* the status a worker's processing stores after the given one
StatusAfter(status) ==
    CASE status = "PendingEnqueued" -> {"PendingProcessing", "FailedExpired"}
      [] status = "PendingProcessing" -> {"PendingLastLookAccepted", "FailedLastLookDeclined"}
      [] status = "PendingLastLookAccepted" -> {"PendingSubmitted", "FailedExpired"}
      [] status = "PendingSubmitted" -> {"SucceededConfirmed", "FailedExpired"}
      [] OTHER -> {}

\* a worker takes the Job of order h to its next status
ProcessTrade(h) ==
    /\ \E status \in StatusAfter(trades[h]) : trades' = [trades EXCEPT ![h] = status]
    /\ UNCHANGED <<dbJob, dbSubs, broadcast, receipts, blockNumber, now, wk>>
    /\ UNCHANGED <<queue, api, before, lastHeartbeatTime, heartbeat, quoteVars, feeVars>>
    /\ UNCHANGED submitting

\* the taker's orders are submitted at once while workers process the stored
\* ones
NextTrades ==
    \E h \in OrderHashes :
        \/ SubmitCheckPending(h)
        \/ SubmitWriteTrade(h)
        \/ ProcessTrade(h)

SpecTrades == InitSubmit /\ [][NextTrades]_vars

\* C34: under any interleaving of submitTakerSignedOtcOrderAsync calls there
\* are never two Jobs of different order hashes, the same taker and the same
\* taker token that both have a Pending-* status.
C34_OnePendingTradePerTaker ==
    \A g, h \in OrderHashes :
        (trades[g] \in PendingStatuses /\ trades[h] \in PendingStatuses) => g = h

\* the rows whose status a step takes from Presubmit to Submitted
MarkedSubmitted ==
    {i \in 1..Len(dbSubs) : dbSubs[i].status = "Presubmit" /\ dbSubs'[i].status = "Submitted"}

\* C35: _submitTransactionAsync stores a Presubmit row of the signed
\* transaction before it broadcasts, and marks the row Submitted only after
\* the broadcast returned; so every transaction ever broadcast has a row, and
\* a crash or a broadcast error between the two steps leaves the row in
\* Presubmit.
C35_PresubmitBeforeBroadcast ==
    [][/\ \A tx \in broadcast' : \E i \in 1..Len(dbSubs') : Transaction(dbSubs'[i]) = tx
       /\ \A i \in MarkedSubmitted : Transaction(dbSubs[i]) \in broadcast
       /\ \A i \in 1..Len(dbSubs) : Len(dbSubs') >= Len(dbSubs) /\ Transaction(dbSubs'[i]) = Transaction(dbSubs[i])
       /\ \A w \in Workers :
            /\ (wk[w].pc = "tx_broadcast" /\ wk'[w] # wk[w]) =>
                  /\ dbSubs' = dbSubs
                  /\ dbSubs[wk[w].subId].status = "Presubmit"
                  /\ Transaction(dbSubs[wk[w].subId]) = Transaction(NewSubmission(w))
                  /\ wk'[w].pc = "tx_mark" => Transaction(dbSubs[wk[w].subId]) \in broadcast'
            /\ (wk[w].pc = "tx_mark" /\ wk'[w].pc # "tx_mark") =>
                  IF wk'[w].pc = "watch"
                    THEN MarkedSubmitted = {wk[w].subId}
                    ELSE dbSubs' = dbSubs /\ dbSubs[wk[w].subId].status = "Presubmit"]_vars

\* the worker stopped after the broadcast and before the row was marked: the
\* transaction is out and its row is in Presubmit
C35_BroadcastLeftInPresubmit ==
    /\ wk[Processor].pc = "idle"
    /\ \E i \in 1..Len(dbSubs) :
          /\ dbSubs[i].status = "Presubmit"
          /\ Transaction(dbSubs[i]) \in broadcast

\* C36: a processJobAsync call that starts when one of the Job's recorded
\* submissions has a mined receipt broadcasts no further transaction, and
\* when it returns from submitJobToChainAsync with that receipt confirmed
\* its final status is the receipt's, as in the run that made the submission.
C36_RerunBroadcastsNothing ==
    [][\A w \in Workers :
         wk[w].minedBefore =>
            /\ ~(wk[w].pc = "tx_broadcast" /\ wk'[w].pc = "tx_mark")
            /\ (SubmitReturns(w) /\ ReceiptIsFinal) =>
                  wk'[w].finalStatus \in ConfirmedStatuses]_vars

\* ------------------------------------------------ the watch loop comes to an end
\* a step of the worker's processJobAsync calls on a chain that mines nothing:
\* no receipt is ever found, so the steps that store one are left out
WatchStep(w) ==
    \/ ProcessJobFind(w)
    \/ ProcessJobClaim(w)
    \/ PrepareStep(w)
    \/ PrepareWriteInvalid(w)
    \/ SubmitStart(w)
    \/ SubmitWriteSubmitted(w)
    \/ SubmitWriteExpired(w)
    \/ TxWritePresubmit(w)
    \/ TxBroadcast(w)
    \/ TxMarkSubmitted(w)
    \/ WatchPoll(w)
    \/ ProcessJobFinal(w)

NextWatch ==
    \/ WatchStep(Processor)
    \/ Tick

\* The worker process keeps running: after the loop's delay the next poll is
\* taken, an awaited storage or RPC call returns or throws.  The clock keeps
\* advancing.  Nothing is mined.
SpecWatch ==
    /\ Init
    /\ [][NextWatch]_vars
    /\ WF_vars(WatchStep(Processor))
    /\ WF_vars(Tick)

\* the worker is in the transaction watch loop of submitJobToChainAsync: at a
\* poll, or in a resubmission the poll started
InWatchLoop(w) ==
    \/ wk[w].pc = "watch"
    \/ wk[w].pc \in {"tx_presubmit", "tx_broadcast", "tx_mark"} /\ ~wk[w].first

\* C37: when no submission of the Job is ever mined and the clock keeps
\* advancing, a worker in the watch loop does not stay in it: the call
\* returns FailedExpired from the loop, unless a resubmission threw first,
\* and it does so also when the fee cap has stopped the resubmissions.
C37_WatchLoopEnds ==
    \A w \in Workers :
        InWatchLoop(w) ~>
            \/ wk[w].pc = "final" /\ wk[w].finalStatus = "FailedExpired"
            \/ wk[w].pc = "idle"

\* the loop gave up on a Job whose fees had reached the cap, so that nothing
\* had been resubmitted for it
C37_GaveUpAtFeeCap ==
    \E w \in Workers :
        /\ wk[w].pc = "final"
        /\ wk[w].finalStatus = "FailedExpired"
        /\ Len(wk[w].ctx) > 0
        /\ ReachedFeeCap(MaxGasFees(wk[w].ctx))
        /\ receipts = {}

\* ------------------------------------------------------ another worker's Job
\* the Job as stored is claimed by a worker other than w
ClaimedByAnother(w) == dbJob.workerAddress # "null" /\ dbJob.workerAddress # w

\* C39: a processJobAsync call made with a worker address other than the
\* Job's recorded non-empty workerAddress ends at the claim test: the Job
\* row, its workerAddress and status included, and the submissions are left
\* as they were, no maker signature is requested and nothing is broadcast.
C39_ForeignWorkerChangesNothing ==
    [][\A w \in Workers :
          (wk[w].pc = "idle" /\ ClaimedByAnother(w)) =>
             /\ wk'[w].pc = "idle"
             /\ wk'[w].counted \in {wk[w].counted, "RFQM_JOB_COMPLETED_WITH_ERROR"}
             /\ (wk'[w] # wk[w]) =>
                   /\ dbJob' = dbJob
                   /\ dbSubs' = dbSubs
                   /\ broadcast' = broadcast
                   /\ ~SignRequestSent(w)]_vars

\* a call by the second worker has ended in the error counter while the
\* first worker holds the Job and is in the middle of its own call
C39_TurnedAwayFromClaimedJob ==
    /\ dbJob.workerAddress = "w1"
    /\ wk["w1"].pc \notin {"idle", "claim"}
    /\ wk["w2"].pc = "idle"
    /\ wk["w2"].counted = "RFQM_JOB_COMPLETED_WITH_ERROR"
    /\ dbJob.status = "PendingProcessing"

\* ------------------------------------------------- every claimed Job is resolved
\* A call is made for the Job when its queue message reaches a worker while
\* it is unclaimed, and by every readiness scan of the worker that owns it
\* while it is unresolved.
ResolveEnter(w) ==
    /\ dbJob.workerAddress = "null" \/ findV2UnresolvedJobs(w) = 1
    /\ ProcessJobFind(w)

\* the worker dies in mid-call, or an awaited call throws; after the last
\* instant of the clock calls return and the worker stays up
ResolveCrash(w) ==
    /\ \E t \in Instants : t > now
    /\ Crash(w)

\* a transaction is mined early enough for the chain to grow the finality
\* threshold of blocks on top of it
ResolveMine ==
    /\ blockNumber + BLOCK_FINALITY_THRESHOLD < MaxBlock
    /\ Mine

ResolveStep(w) ==
    \/ ResolveEnter(w)
    \/ ProcessJobClaim(w)
    \/ PrepareStep(w)
    \/ PrepareWriteInvalid(w)
    \/ SubmitStart(w)
    \/ SubmitWriteSubmitted(w)
    \/ SubmitWriteExpired(w)
    \/ TxWritePresubmit(w)
    \/ TxBroadcast(w)
    \/ TxMarkSubmitted(w)
    \/ WatchPoll(w)
    \/ WatchWriteReceipt(w)
    \/ WatchWriteSecond(w)
    \/ ProcessJobFinal(w)

NextResolve ==
    \/ ResolveStep(Processor)
    \/ ResolveCrash(Processor)
    \/ Tick
    \/ ResolveMine
    \/ NewBlock

\* The owning worker keeps running readiness scans and its awaited calls
\* return; blocks and time advance.  Whether a transaction is mined is left
\* to the chain.
SpecResolve ==
    /\ Init
    /\ [][NextResolve]_vars
    /\ WF_vars(ResolveStep(Processor))
    /\ WF_vars(Tick)
    /\ WF_vars(NewBlock)

\* C38: under that fairness every Job a worker has claimed eventually has a
\* terminal stored status, a Failed-* one or SucceededConfirmed, whatever
\* exceptions and crashes ended the calls made for it on the way.
C38_ClaimedJobResolves ==
    (dbJob.workerAddress # "null") ~>
        (dbJob.status \in FailedStatuses \cup {"SucceededConfirmed"})

====
